---- MODULE Spec2Model ----
(***************************************************************************)
(* Model of the transfer monitor: the event scanner and incremental poller *)
(* (EthereumMonitor), the record store and its statistics                  *)
(* (TransactionDatabase) and the monitoring loop of bot.ts.                *)
(***************************************************************************)
EXTENDS Integers, Sequences, FiniteSets, TLC

(***************************************************************************)
(* Bounds of the model.                                                    *)
(***************************************************************************)
\* heights the gateway reports lie in 0..MaxHeightSpan or in
\* FirstRunLookback..FirstRunLookback+MaxHeightSpan
MaxHeightSpan == 2
\* number of scans one monitor instance issues in a run of the model
MaxPolls == 3
\* length of the log list the gateway returns in the scanner specification
MaxLogs == 2
\* number of rows of the store in the store specification
MaxRows == 6
\* target times of the locator specification: TargetStep * (0..MaxTargetSteps)
MaxTargetSteps == 13
\* number of rows of the store in the statistics specification
MaxStatRows == 3
\* number of rows of the store in the history specification
MaxHistRows == 3
\* number of openings of one database file in the migration specification
MaxOpenings == 3
\* number of times the process is started again
MaxRestarts == 1

(***************************************************************************)
(* Program constants.                                                      *)
(***************************************************************************)
\* first run: "check last 100 blocks"
FirstRunLookback == 100
\* "Ethereum averages ~12 seconds per block"
secondsPerBlock == 12
\* half width of the locator's binary-search window
SearchRadius == 1000
\* this.targetAmount, the configured AMOUNT
targetAmount == 4

\* lastCheckedBlock: number | null
NoBlock == 0 - 1
\* SQL NULL / JavaScript undefined in a text column or optional field
NULL == "NULL"

TRANSFER_EVENT_SIGNATURE == "Transfer"
recipientAddress == "0xdead"

Max(a, b) == IF a >= b THEN a ELSE b
Min(a, b) == IF a <= b THEN a ELSE b

(***************************************************************************)
(* The ledger as the gateway shows it.                                     *)
(***************************************************************************)
HeightSet ==
    { h \in 0..(FirstRunLookback + MaxHeightSpan) :
        h <= MaxHeightSpan \/ h >= FirstRunLookback }

\* A chain's block timestamps: blocks below mergeHeight were produced every
\* earlyBlockTime seconds, the blocks from it on every lateBlockTime seconds.
ChainTimestamp(chain, h) ==
    IF h <= chain.mergeHeight THEN chain.earlyBlockTime * h
    ELSE chain.earlyBlockTime * chain.mergeHeight
           + chain.lateBlockTime * (h - chain.mergeHeight)

\* the chain of the process specification: one block every 12 seconds
MainChain ==
    [earlyBlockTime |-> secondsPerBlock, lateBlockTime |-> secondsPerBlock,
     mergeHeight |-> 0]

\* block.timestamp (seconds) of the block at height h
BlockTimestamp(h) == ChainTimestamp(MainChain, h)

\* A raw log: transactionHash (NULL when the field is absent), blockNumber,
\* topics, data (<<v>> for a payload that BigInt() reads as v, <<>> for one
\* it rejects).  sender is tx.from of the owning transaction.
Log(tx, bn, topics, data, sender) ==
    [transactionHash |-> tx, blockNumber |-> bn, topics |-> topics,
     data |-> <<data>>, sender |-> sender]

Topic(addr) == addr

\* The Transfer logs of the token on the modelled chain, in ledger order:
\* a match in an early block; a transfer of another amount; one transaction
\* with two matching logs; a log with a wrong topic count; a late match.
ChainLogs ==
    << Log("t1", 1, <<TRANSFER_EVENT_SIGNATURE, Topic("0xa"), Topic(recipientAddress)>>, targetAmount, "0xa"),
       Log("t2", 2, <<TRANSFER_EVENT_SIGNATURE, Topic("0xb"), Topic(recipientAddress)>>, targetAmount + 1, "0xb"),
       Log("t3", FirstRunLookback + 1, <<TRANSFER_EVENT_SIGNATURE, Topic("0xa"), Topic(recipientAddress)>>, targetAmount, "0xc"),
       Log("t3", FirstRunLookback + 1, <<TRANSFER_EVENT_SIGNATURE, Topic("0xb"), Topic(recipientAddress)>>, targetAmount, "0xc"),
       Log("t4", FirstRunLookback + 2, <<TRANSFER_EVENT_SIGNATURE, Topic("0xa")>>, targetAmount, "0xa"),
       Log("t5", FirstRunLookback + 2, <<TRANSFER_EVENT_SIGNATURE, Topic("0xb"), Topic(recipientAddress)>>, targetAmount, "0xb") >>

ChainTxs == { ChainLogs[i].transactionHash : i \in 1..Len(ChainLogs) }

\* eth.getPastLogs({fromBlock, toBlock, ...}): the positions, in the ledger's
\* log list, of the logs of blocks startBlock..endBlock, in ledger order
RECURSIVE SelectLogs(_, _, _, _)
SelectLogs(logs, i, startBlock, endBlock) ==
    IF i > Len(logs) THEN <<>>
    ELSE (IF startBlock <= logs[i].blockNumber /\ logs[i].blockNumber <= endBlock
            THEN <<i>> ELSE <<>>)
         \o SelectLogs(logs, i + 1, startBlock, endBlock)

(***************************************************************************)
(* EthereumMonitor.parseTransferEvent                                      *)
(***************************************************************************)
NoTransfer == [ok |-> FALSE, from |-> NULL, to |-> NULL, value |-> 0]

parseTransferEvent(log) ==
    IF Len(log.topics) # 3 \/ log.topics[1] # TRANSFER_EVENT_SIGNATURE
      THEN NoTransfer
    ELSE IF log.data = <<>>
      THEN NoTransfer                      \* BigInt(log.data) throws, caught
    ELSE [ok |-> TRUE, from |-> log.topics[2], to |-> log.topics[3],
          value |-> log.data[1]]

(***************************************************************************)
(* EthereumMonitor.scanBlocksForTransfers                                  *)
(*                                                                         *)
(* gateway is what the ledger gateway does during the call:                *)
(*   getPastLogs  "ok" or "fail" (the logs query rejects)                  *)
(*   logs         the logs of the token on the ledger                      *)
(*   lookups      for the i-th log of logs, the outcome of the three       *)
(*                lookups getTransaction/getTransactionReceipt/getBlock:   *)
(*                "ok" (all non-empty), "empty" (one is null) or "fail"    *)
(*                (one rejects)                                            *)
(* The result is [raised, records]: raised says that the call rejected.    *)
(***************************************************************************)
TokenTransfer(log, transfer) ==
    [hash |-> log.transactionHash,
     blockNumber |-> log.blockNumber,
     from |-> transfer.from,
     to |-> transfer.to,
     value |-> transfer.value,
     timestamp |-> BlockTimestamp(log.blockNumber) * 1000,
     initiatorAddress |-> log.sender]

\* the amount filter written as "value < targetAmount"
ScanOneLog_AtLeast(log, lookup, matchingTransfers) ==
    IF log.transactionHash = NULL \/ log.blockNumber = 0
      THEN matchingTransfers
    ELSE IF ~parseTransferEvent(log).ok
      THEN matchingTransfers
    ELSE IF parseTransferEvent(log).value < targetAmount
      THEN matchingTransfers
    ELSE IF lookup # "ok"
      THEN matchingTransfers
    ELSE Append(matchingTransfers, TokenTransfer(log, parseTransferEvent(log)))

\* one iteration of "for (const log of logs)": the records after it
ScanOneLog(log, lookup, matchingTransfers) ==
    IF log.transactionHash = NULL \/ log.blockNumber = 0
      THEN matchingTransfers                                   \* type guard
    ELSE IF ~parseTransferEvent(log).ok
      THEN matchingTransfers
    ELSE IF parseTransferEvent(log).value # targetAmount
      THEN matchingTransfers
    ELSE IF lookup = "fail"
      THEN matchingTransfers            \* Promise.all rejects, inner catch
    ELSE IF lookup = "empty"
      THEN matchingTransfers            \* !tx || !receipt || !block
    ELSE Append(matchingTransfers, TokenTransfer(log, parseTransferEvent(log)))

\* the loop without the inner try/catch: a rejected lookup ends it
RECURSIVE ScanLoop_NoInnerCatch(_, _, _, _)
ScanLoop_NoInnerCatch(gateway, returned, k, matchingTransfers) ==
    IF k > Len(returned) THEN matchingTransfers
    ELSE IF gateway.lookups[returned[k]] = "fail"
              /\ ScanOneLog(gateway.logs[returned[k]], "ok", matchingTransfers)
                   # matchingTransfers
      THEN matchingTransfers
    ELSE ScanLoop_NoInnerCatch(gateway, returned, k + 1,
                  ScanOneLog(gateway.logs[returned[k]],
                             gateway.lookups[returned[k]], matchingTransfers))

\* "for (const log of logs)": returned holds the positions of the returned logs
RECURSIVE ScanLoop(_, _, _, _)
ScanLoop(gateway, returned, k, matchingTransfers) ==
    IF k > Len(returned) THEN matchingTransfers
    ELSE ScanLoop(gateway, returned, k + 1,
                  ScanOneLog(gateway.logs[returned[k]],
                             gateway.lookups[returned[k]], matchingTransfers))

scanBlocksForTransfers(startBlock, endBlock, gateway) ==
    IF gateway.getPastLogs = "fail"
      THEN [raised |-> FALSE, records |-> <<>>]        \* outer catch
    ELSE [raised |-> FALSE,
          records |-> ScanLoop(gateway,
                               SelectLogs(gateway.logs, 1, startBlock, endBlock),
                               1, <<>>)]

(***************************************************************************)
(* EthereumMonitor.checkForNewTransfers                                    *)
(*                                                                         *)
(* cursor is lastCheckedBlock before the call, height what getBlockNumber  *)
(* answers (<<h>>, or <<>> when it rejects).  The result tells whether the call    *)
(* threw, the cursor after it, whether a scan was issued and over which    *)
(* window, and the records returned.                                       *)
(***************************************************************************)
PollResult(threw, cursor, scanned, startBlock, endBlock, scan) ==
    [threw |-> threw, lastCheckedBlock |-> cursor, scanned |-> scanned,
     startBlock |-> startBlock, endBlock |-> endBlock,
     raised |-> scan.raised, records |-> scan.records,
     getPastLogs |-> "ok", eligible |-> {}, cursorBefore |-> cursor,
     tickThrew |-> FALSE, failedHash |-> NULL, polled |-> TRUE,
     slackFail |-> {}, storedBefore |-> {}]

NoScan == [raised |-> FALSE, records |-> <<>>]

\* the next window starts at the cursor itself
PollStart_FromCursor(cursor, currentBlock) ==
    IF cursor = NoBlock THEN Max(0, currentBlock - FirstRunLookback)
    ELSE cursor

\* the first window taken as currentBlock - 100, without Math.max(0, ...)
PollStart_NoClamp(cursor, currentBlock) ==
    IF cursor = NoBlock THEN currentBlock - FirstRunLookback
    ELSE cursor + 1

PollStart(cursor, currentBlock) ==
    IF cursor = NoBlock THEN Max(0, currentBlock - FirstRunLookback)
    ELSE cursor + 1

\* the call without "if (startBlock > currentBlock) return []"
checkForNewTransfers_AlwaysScan(cursor, height, gateway) ==
    IF height = <<>>
      THEN PollResult(TRUE, cursor, FALSE, 0, 0, NoScan)
    ELSE PollResult(FALSE, height[1], TRUE, PollStart(cursor, height[1]), height[1],
                    scanBlocksForTransfers(PollStart(cursor, height[1]), height[1],
                                           gateway))

checkForNewTransfers(cursor, height, gateway) ==
    IF height = <<>>
      THEN PollResult(TRUE, cursor, FALSE, 0, 0, NoScan)   \* getBlockNumber rejects
    ELSE LET currentBlock == height[1]
             startBlock == PollStart(cursor, currentBlock)
             \* first run: this.lastCheckedBlock = currentBlock
             firstSet == IF cursor = NoBlock THEN currentBlock ELSE cursor
         IN IF startBlock > currentBlock
              THEN PollResult(FALSE, firstSet, FALSE, startBlock, currentBlock, NoScan)
            ELSE LET scan == scanBlocksForTransfers(startBlock, currentBlock, gateway)
                 IN IF scan.raised
                      THEN PollResult(TRUE, firstSet, TRUE, startBlock, currentBlock, scan)
                    ELSE PollResult(FALSE, currentBlock, TRUE, startBlock, currentBlock, scan)

(***************************************************************************)
(* EthereumMonitor.getBlockNumberForDate                                   *)
(*                                                                         *)
(* failing is the set of heights whose getBlock probe rejects.             *)
(***************************************************************************)
\* the probe compared with "blockTimestamp > targetTimestamp"
RECURSIVE BinarySearch_Strict(_, _, _, _, _, _, _)
BinarySearch_Strict(low, high, bestBlock, estimatedBlock, targetTimestamp, failing, chain) ==
    IF low > high THEN bestBlock
    ELSE LET mid == (low + high) \div 2
         IN IF mid \in failing
              THEN IF mid < estimatedBlock
                     THEN BinarySearch_Strict(mid + 1, high, bestBlock, estimatedBlock,
                                              targetTimestamp, failing, chain)
                   ELSE BinarySearch_Strict(low, mid - 1, bestBlock, estimatedBlock,
                                            targetTimestamp, failing, chain)
            ELSE IF ChainTimestamp(chain, mid) > targetTimestamp
              THEN BinarySearch_Strict(low, mid - 1, mid, estimatedBlock,
                                       targetTimestamp, failing, chain)
            ELSE BinarySearch_Strict(mid + 1, high, bestBlock, estimatedBlock,
                                     targetTimestamp, failing, chain)

\* every failed probe treated as "too high"
SearchStep_TooHigh(low, high, bestBlock, estimatedBlock, targetTimestamp, failing, chain) ==
    LET mid == (low + high) \div 2
    IN IF mid \in failing
         THEN [mid |-> mid, failed |-> TRUE, low |-> low, high |-> mid - 1,
               bestBlock |-> bestBlock]
       ELSE IF ChainTimestamp(chain, mid) >= targetTimestamp
         THEN [mid |-> mid, failed |-> FALSE, low |-> low, high |-> mid - 1,
               bestBlock |-> mid]
       ELSE [mid |-> mid, failed |-> FALSE, low |-> mid + 1, high |-> high,
             bestBlock |-> bestBlock]

\* one iteration of "while (low <= high)": the probed height, whether the
\* probe rejected, and low, high and bestBlock after it
SearchStep(low, high, bestBlock, estimatedBlock, targetTimestamp, failing, chain) ==
    LET mid == (low + high) \div 2
    IN IF mid \in failing
         THEN IF mid < estimatedBlock
                THEN [mid |-> mid, failed |-> TRUE, low |-> mid + 1, high |-> high,
                      bestBlock |-> bestBlock]
              ELSE [mid |-> mid, failed |-> TRUE, low |-> low, high |-> mid - 1,
                    bestBlock |-> bestBlock]
       ELSE IF ChainTimestamp(chain, mid) >= targetTimestamp
         THEN [mid |-> mid, failed |-> FALSE, low |-> low, high |-> mid - 1,
               bestBlock |-> mid]
       ELSE [mid |-> mid, failed |-> FALSE, low |-> mid + 1, high |-> high,
             bestBlock |-> bestBlock]

RECURSIVE BinarySearch(_, _, _, _, _, _, _)
BinarySearch(low, high, bestBlock, estimatedBlock, targetTimestamp, failing, chain) ==
    IF low > high THEN bestBlock
    ELSE BinarySearch(
           SearchStep(low, high, bestBlock, estimatedBlock, targetTimestamp,
                      failing, chain).low,
           SearchStep(low, high, bestBlock, estimatedBlock, targetTimestamp,
                      failing, chain).high,
           SearchStep(low, high, bestBlock, estimatedBlock, targetTimestamp,
                      failing, chain).bestBlock,
           estimatedBlock, targetTimestamp, failing, chain)

\* the iterations of the loop in order, each with low and high before it
RECURSIVE SearchTrace(_, _, _, _, _, _, _)
SearchTrace(low, high, bestBlock, estimatedBlock, targetTimestamp, failing, chain) ==
    IF low > high THEN <<>>
    ELSE << [lowBefore |-> low, highBefore |-> high,
             step |-> SearchStep(low, high, bestBlock, estimatedBlock,
                                 targetTimestamp, failing, chain)] >>
         \o SearchTrace(
               SearchStep(low, high, bestBlock, estimatedBlock, targetTimestamp,
                          failing, chain).low,
               SearchStep(low, high, bestBlock, estimatedBlock, targetTimestamp,
                          failing, chain).high,
               SearchStep(low, high, bestBlock, estimatedBlock, targetTimestamp,
                          failing, chain).bestBlock,
               estimatedBlock, targetTimestamp, failing, chain)

\* Math.floor(secondsDiff / secondsPerBlock) is \div: both round down
EstimatedBlock(targetTimestamp, currentBlock, chain) ==
    LET secondsDiff == ChainTimestamp(chain, currentBlock) - targetTimestamp
        estimatedBlocksBack == secondsDiff \div secondsPerBlock
    IN Max(0, currentBlock - estimatedBlocksBack)

\* "let bestBlock = currentBlock" in place of the estimate
getBlockNumberForDate_FallbackCurrent(targetTimestamp, height, failing, chain) ==
    IF height = <<>> \/ height[1] \in failing THEN <<>>
    ELSE LET currentBlock == height[1]
             estimatedBlock == EstimatedBlock(targetTimestamp, currentBlock, chain)
         IN << BinarySearch(Max(0, estimatedBlock - SearchRadius),
                            Min(currentBlock, estimatedBlock + SearchRadius),
                            currentBlock, estimatedBlock, targetTimestamp,
                            failing, chain) >>

\* the probes a call of getBlockNumberForDate makes
LocatorProbes(targetTimestamp, height, failing, chain) ==
    IF height = <<>> \/ height[1] \in failing THEN <<>>
    ELSE LET currentBlock == height[1]
             estimatedBlock == EstimatedBlock(targetTimestamp, currentBlock, chain)
         IN SearchTrace(Max(0, estimatedBlock - SearchRadius),
                        Min(currentBlock, estimatedBlock + SearchRadius),
                        estimatedBlock, estimatedBlock, targetTimestamp,
                        failing, chain)

\* <<block>>, or <<>> when getBlockNumber or getBlock(currentBlock) rejects
getBlockNumberForDate(targetTimestamp, height, failing, chain) ==
    IF height = <<>> \/ height[1] \in failing THEN <<>>
    ELSE LET currentBlock == height[1]
             estimatedBlock == EstimatedBlock(targetTimestamp, currentBlock, chain)
         IN << BinarySearch(Max(0, estimatedBlock - SearchRadius),
                            Min(currentBlock, estimatedBlock + SearchRadius),
                            estimatedBlock, estimatedBlock, targetTimestamp,
                            failing, chain) >>

\* EthereumMonitor.getHistoricalTransfers: [threw, scanned, startBlock, endBlock,
\* records], scanned telling whether scanBlocksForTransfers was invoked
getHistoricalTransfers(startDate, height1, height2, failing, gateway) ==
    LET startBlock == getBlockNumberForDate(startDate, height2, failing, MainChain)
    IN IF height1 = <<>> \/ startBlock = <<>>
         THEN [threw |-> TRUE, scanned |-> FALSE, startBlock |-> 0, endBlock |-> 0,
               records |-> <<>>]
       ELSE LET scan == scanBlocksForTransfers(startBlock[1], height1[1], gateway)
            IN [threw |-> scan.raised, scanned |-> TRUE, startBlock |-> startBlock[1],
                endBlock |-> height1[1], records |-> scan.records]

(***************************************************************************)
(* TransactionDatabase: the token_transfers table is the sequence rows, in *)
(* insertion order.                                                        *)
(***************************************************************************)
CURRENT_SCHEMA_VERSION == 2

\* The database file: user_version, and the tables token_transfers and
\* token_transfers_new, each <<>> when absent and otherwise <<t>> with
\* t.column the name of the address column and t.rows the rows, a row
\* being its tx_hash and the value of that column.
getSchemaVersion(db) == db.user_version

setSchemaVersion(db, version) == [db EXCEPT !.user_version = version]

\* every version up to the current one, whatever the file records
PendingVersions_All(currentVersion) == 1..CURRENT_SCHEMA_VERSION

\* runMigrations: nothing when the file is at the current version or above,
\* otherwise the versions currentVersion + 1 .. CURRENT_SCHEMA_VERSION
PendingVersions(currentVersion) ==
    IF currentVersion >= CURRENT_SCHEMA_VERSION THEN {}
    ELSE (currentVersion + 1)..CURRENT_SCHEMA_VERSION

transferExists(rows, txHash) ==
    \E i \in 1..Len(rows) : rows[i].tx_hash = txHash

\* transfer.burnerAddress || null
BurnerOf(transfer) ==
    IF "burnerAddress" \in DOMAIN transfer THEN transfer.burnerAddress ELSE NULL

\* Amounts are counted in tokens of 10^18 base units, so that the greatest
\* signed 64-bit integer, 9223372036854775807 base units, is 9 tokens and a
\* fraction: an amount or a sum of 10 tokens or more does not fit 64 bits.
Int64MaxTokens == 9

\* bigint.toString(): the decimal digits, most significant first
RECURSIVE BigIntToString(_)
BigIntToString(n) ==
    IF n < 10 THEN <<n>>
    ELSE Append(BigIntToString(n \div 10), n % 10)

\* BigInt(text) of a string of decimal digits
RECURSIVE BigInt(_)
BigInt(text) ==
    IF Len(text) = 0 THEN 0
    ELSE 10 * BigInt(SubSeq(text, 1, Len(text) - 1)) + text[Len(text)]

\* Date.toISOString(): the calendar day and the time of day, of a Date given
\* by its milliseconds since the epoch
MsPerDay == 86400000

toISOString(ms) == [day |-> ms \div MsPerDay, time |-> ms % MsPerDay]

\* new Date(text).getTime()
DateParse(text) == text.day * MsPerDay + text.time

Row(transfer) ==
    [tx_hash |-> transfer.hash,
     block_number |-> transfer.blockNumber,
     to_address |-> transfer.to,
     burner_address |-> BurnerOf(transfer),
     value |-> BigIntToString(transfer.value),
     timestamp |-> toISOString(transfer.timestamp)]

\* tx_hash declared without UNIQUE
addTransfer_NoUnique(rows, transfer) ==
    [raised |-> FALSE, rows |-> Append(rows, Row(transfer))]

\* INSERT INTO token_transfers: tx_hash is UNIQUE NOT NULL, so the insert of
\* a row whose tx_hash is stored raises and writes nothing
addTransfer(rows, transfer) ==
    IF \E i \in 1..Len(rows) : rows[i].tx_hash = Row(transfer).tx_hash
      THEN [raised |-> TRUE, rows |-> rows]
    ELSE [raised |-> FALSE, rows |-> Append(rows, Row(transfer))]

\* SELECT COUNT(*) FROM token_transfers WHERE to_address = ?
RECURSIVE getTransferCount(_, _)
getTransferCount(rows, recipient) ==
    IF rows = <<>> THEN 0
    ELSE (IF Head(rows).to_address = recipient THEN 1 ELSE 0)
         + getTransferCount(Tail(rows), recipient)

\* SELECT COUNT(*) FROM token_transfers WHERE burner_address = ?
RECURSIVE CountBurner(_, _)
CountBurner(rows, burnerAddress) ==
    IF rows = <<>> THEN 0
    ELSE (IF burnerAddress # NULL /\ Head(rows).burner_address = burnerAddress
            THEN 1 ELSE 0)
         + CountBurner(Tail(rows), burnerAddress)

\* SELECT DISTINCT burner_address ... WHERE burner_address IS NOT NULL
DistinctBurners(rows) ==
    { rows[i].burner_address : i \in 1..Len(rows) } \ {NULL}

\* WITH burner_counts AS (SELECT burner_address, COUNT(*) ... GROUP BY ...)
burner_counts(rows) ==
    [b \in DistinctBurners(rows) |-> CountBurner(rows, b)]

\* tx_count >= in place of tx_count >
RankStmt_GreaterOrEqual(counts, burnerAddress) ==
    IF burnerAddress \notin DOMAIN counts THEN 1
    ELSE Cardinality({ b \in DOMAIN counts : counts[b] >= counts[burnerAddress] }) + 1

\* dense rank: COUNT(DISTINCT tx_count) + 1
RankStmt_Dense(counts, burnerAddress) ==
    IF burnerAddress \notin DOMAIN counts THEN 1
    ELSE Cardinality({ counts[b] : b \in { c \in DOMAIN counts :
                                             counts[c] > counts[burnerAddress] } }) + 1

\* SELECT COUNT(*) + 1 FROM burner_counts WHERE tx_count > (SELECT tx_count
\* FROM burner_counts WHERE burner_address = ?); the subquery is NULL, and no
\* row compares greater, when the address has no row
RankStmt(counts, burnerAddress) ==
    IF burnerAddress \notin DOMAIN counts THEN 1
    ELSE Cardinality({ b \in DOMAIN counts : counts[b] > counts[burnerAddress] }) + 1

getBurnerStats(rows, burnerAddress) ==
    [count |-> CountBurner(rows, burnerAddress),
     rank |-> RankStmt(burner_counts(rows), burnerAddress),
     totalBurners |-> Cardinality(DistinctBurners(rows))]

\* ORDER BY block_number ASC: rows of one block stay in insertion order
RECURSIVE InsertByBlock(_, _)
InsertByBlock(sorted, row) ==
    IF sorted = <<>> THEN <<row>>
    ELSE IF Head(sorted).block_number <= row.block_number
      THEN <<Head(sorted)>> \o InsertByBlock(Tail(sorted), row)
    ELSE <<row>> \o sorted

RECURSIVE OrderByBlockNumber(_)
OrderByBlockNumber(table) ==
    IF table = <<>> THEN <<>>
    ELSE InsertByBlock(OrderByBlockNumber(SubSeq(table, 1, Len(table) - 1)),
                       table[Len(table)])

\* "for (let i = 1; i < rows.length; i++) totalDiff += currTime - prevTime"
RECURSIVE TotalDiff(_, _)
TotalDiff(ordered, i) ==
    IF i > Len(ordered) THEN 0
    ELSE (DateParse(ordered[i].timestamp) - DateParse(ordered[i - 1].timestamp))
         + TotalDiff(ordered, i + 1)

\* the rows read in insertion order, without ORDER BY
getAverageTimeBetweenTransfers_Unordered(table) ==
    IF Len(table) < 2 THEN <<>>
    ELSE << [totalDiff |-> TotalDiff(table, 2), intervals |-> Len(table) - 1] >>

\* <<>> for null; otherwise the quotient totalDiff / (rows.length - 1), kept
\* as its numerator and denominator
getAverageTimeBetweenTransfers(table) ==
    IF Len(table) < 2 THEN <<>>
    ELSE << [totalDiff |-> TotalDiff(OrderByBlockNumber(table), 2),
             intervals |-> Len(table) - 1] >>

\* the sum held in a signed 64-bit integer
RECURSIVE getTotalTokensSent_Int64(_)
getTotalTokensSent_Int64(table) ==
    IF table = <<>> THEN 0
    ELSE Min(Int64MaxTokens,
             BigInt(Head(table).value) + getTotalTokensSent_Int64(Tail(table)))

\* "for (const row of rows) total += BigInt(row.value)"
RECURSIVE getTotalTokensSent(_)
getTotalTokensSent(table) ==
    IF table = <<>> THEN 0
    ELSE BigInt(Head(table).value) + getTotalTokensSent(Tail(table))

\* the groups of GROUP BY burner_address in an order ORDER BY count DESC
\* allows: groups of equal count come in any order
OrderedGroups(counts) ==
    { order \in [1..Cardinality(DOMAIN counts) -> DOMAIN counts] :
        /\ \A i \in DOMAIN order : \A j \in DOMAIN order :
              order[i] = order[j] => i = j
        /\ \A i \in DOMAIN order : \A j \in DOMAIN order :
              i < j => counts[order[i]] >= counts[order[j]] }

\* ORDER BY count ASC
getTopBurners_Ascending(table, limit) ==
    { [i \in 1..Min(limit, Len(order)) |->
          [address |-> order[Len(order) + 1 - i],
           count |-> burner_counts(table)[order[Len(order) + 1 - i]]]] :
        order \in OrderedGroups(burner_counts(table)) }

\* the results the statement may return: the first limit groups of one of
\* the allowed orders
getTopBurners(table, limit) ==
    { [i \in 1..Min(limit, Len(order)) |->
          [address |-> order[i], count |-> burner_counts(table)[order[i]]]] :
        order \in OrderedGroups(burner_counts(table)) }

\* "timestamp < ?" on the stored text: ISO strings of one format compare as
\* their days and times of day do
IsoLess(a, b) == a.day < b.day \/ (a.day = b.day /\ a.time < b.time)

\* the rows the statement of getPreviousTransferTimestamp selects; the
\* subquery is NULL, and nothing is selected, when currentHash has no row
PreviousCandidates(table, currentHash, currentTimestamp) ==
    { i \in 1..Len(table) :
        /\ table[i].tx_hash # currentHash
        /\ \E c \in 1..Len(table) :
              /\ table[c].tx_hash = currentHash
              /\ \/ table[i].block_number < table[c].block_number
                 \/ /\ table[i].block_number = table[c].block_number
                    /\ IsoLess(table[i].timestamp, toISOString(currentTimestamp)) }

\* the lookup by time alone: "WHERE tx_hash != ? AND timestamp < ? ORDER BY
\* timestamp DESC LIMIT 1"
getPreviousTransferTimestamp_ByTime(table, currentHash, currentTimestamp) ==
    IF { i \in 1..Len(table) :
           /\ table[i].tx_hash # currentHash
           /\ IsoLess(table[i].timestamp, toISOString(currentTimestamp)) } = {}
      THEN <<>>
    ELSE LET earlier == { i \in 1..Len(table) :
                            /\ table[i].tx_hash # currentHash
                            /\ IsoLess(table[i].timestamp,
                                       toISOString(currentTimestamp)) }
             first == CHOOSE i \in earlier :
                        \A j \in earlier :
                           ~IsoLess(table[i].timestamp, table[j].timestamp)
         IN << DateParse(table[first].timestamp) >>

\* ORDER BY block_number DESC, timestamp DESC LIMIT 1: <<>> for null,
\* otherwise the time of the selected row
getPreviousTransferTimestamp(table, currentHash, currentTimestamp) ==
    IF PreviousCandidates(table, currentHash, currentTimestamp) = {} THEN <<>>
    ELSE LET first ==
               CHOOSE i \in PreviousCandidates(table, currentHash, currentTimestamp) :
                 \A j \in PreviousCandidates(table, currentHash, currentTimestamp) :
                    \/ table[j].block_number < table[i].block_number
                    \/ /\ table[j].block_number = table[i].block_number
                       /\ ~IsoLess(table[i].timestamp, table[j].timestamp)
         IN << DateParse(table[first].timestamp) >>

\* ORDER BY block_number ASC, timestamp ASC
RECURSIVE InsertByBlockAndTime(_, _)
InsertByBlockAndTime(sorted, row) ==
    IF sorted = <<>> THEN <<row>>
    ELSE IF \/ Head(sorted).block_number < row.block_number
            \/ /\ Head(sorted).block_number = row.block_number
               /\ ~IsoLess(row.timestamp, Head(sorted).timestamp)
      THEN <<Head(sorted)>> \o InsertByBlockAndTime(Tail(sorted), row)
    ELSE <<row>> \o sorted

RECURSIVE OrderByBlockAndTime(_)
OrderByBlockAndTime(table) ==
    IF table = <<>> THEN <<>>
    ELSE InsertByBlockAndTime(OrderByBlockAndTime(SubSeq(table, 1, Len(table) - 1)),
                              table[Len(table)])

\* rows.map(row => new Date(row.timestamp)), as milliseconds
RECURSIVE TransferTimes(_)
TransferTimes(ordered) ==
    IF ordered = <<>> THEN <<>>
    ELSE <<DateParse(Head(ordered).timestamp)>> \o TransferTimes(Tail(ordered))

\* setHours(0, 0, 0, 0) and setHours(23, 59, 59, 999), the process running
\* in UTC
StartOfDay(ms) == (ms \div MsPerDay) * MsPerDay
EndOfDay(ms) == StartOfDay(ms) + MsPerDay - 1

\* Math.ceil(a / b) for b > 0
Ceil(a, b) == 0 - ((0 - a) \div b)

MsPerHour == 3600000
WindowDays == 7

\* the sum of "transfersInWindow[j] - transfersInWindow[j - 1]" from j on
RECURSIVE SumDiffs(_, _)
SumDiffs(times, j) ==
    IF j > Len(times) THEN 0
    ELSE (times[j] - times[j - 1]) + SumDiffs(times, j + 1)

\* the body of "for (let i = 0; i < actualDays; i++)" for the day that
\* starts at targetDate: movingAverageHours, <<>> for null, otherwise the
\* quotient totalDiff / intervals / msPerHour kept as its three terms
DayAverage(transfers, targetDate) ==
    LET endOfDay == targetDate + MsPerDay - 1
        transfersUpToDate == SelectSeq(transfers, LAMBDA t : t <= endOfDay)
        windowStart == StartOfDay(endOfDay - WindowDays * MsPerDay)
        transfersInWindow == SelectSeq(transfersUpToDate, LAMBDA t : t >= windowStart)
    IN IF Len(transfersUpToDate) < 2 THEN <<>>
       ELSE IF Len(transfersInWindow) < 2 THEN <<>>
       ELSE << [totalDiff |-> SumDiffs(transfersInWindow, 2),
                intervals |-> Len(transfersInWindow) - 1,
                msPerHour |-> MsPerHour] >>

\* dailyData: one entry per day from startDate on, as far as today
RECURSIVE DailyData(_, _, _, _, _)
DailyData(transfers, startDate, today, i, actualDays) ==
    IF i >= actualDays THEN <<>>
    ELSE IF startDate + i * MsPerDay + MsPerDay - 1 > today THEN <<>>
    ELSE << [date |-> startDate + i * MsPerDay,
             movingAverageHours |-> DayAverage(transfers, startDate + i * MsPerDay)] >>
         \o DailyData(transfers, startDate, today, i + 1, actualDays)

\* now is new Date() at the time of the call, in milliseconds
getDaily7DayMovingAverage(table, now, maxDays) ==
    IF Len(table) < 2 THEN <<>>
    ELSE LET transfers == TransferTimes(OrderByBlockAndTime(table))
             firstDate == StartOfDay(transfers[1])
             today == EndOfDay(now)
             daysDiff == Ceil(today - firstDate, MsPerDay)
             startDate == IF daysDiff < maxDays THEN firstDate
                          ELSE StartOfDay(today) - (maxDays - 1) * MsPerDay
             actualDays == Min(daysDiff + 1, maxDays)
         IN IF actualDays <= 0 THEN <<>>
            ELSE DailyData(transfers, startDate, today, 0, actualDays)

\* db.getTotalInitiators(), which bot.ts calls: the number of distinct
\* non-null initiator addresses
getTotalInitiators(table) == Cardinality(DistinctBurners(table))

(***************************************************************************)
(* bot.ts, main.                                                           *)
(*                                                                         *)
(* dbFail = [at, kind] names the record of a batch during whose            *)
(* processing a store call rejects for a reason of the store itself (at =  *)
(* 0: none): kind "store" is transferExists/addTransfer (nothing written), *)
(* kind "stats" one of the statistics queries after the write.  slackFail  *)
(* is the set of hashes for which sendTransferAlert rejects.               *)
(***************************************************************************)
\* the insert issued without the existence check, into a table that accepts it
StoreIfAbsent_Unchecked(rows, transfer) ==
    [raised |-> FALSE, rows |-> Append(rows, Row(transfer))]

\* if (!db.transferExists(transfer.hash)) { db.addTransfer(transfer); ... }
StoreIfAbsent(rows, transfer) ==
    IF ~transferExists(rows, transfer.hash)
      THEN addTransfer(rows, transfer)
    ELSE [raised |-> FALSE, rows |-> rows]

\* first-run backfill, "for (const transfer of historicalTransfers)"
RECURSIVE BackfillStore(_, _, _, _)
BackfillStore(transfers, i, rows, dbFail) ==
    IF i > Len(transfers) THEN [threw |-> FALSE, rows |-> rows]
    ELSE IF dbFail.at = i /\ dbFail.kind = "store"
      THEN [threw |-> TRUE, rows |-> rows]
    ELSE LET stored == StoreIfAbsent(rows, transfers[i])
         IN IF stored.raised THEN [threw |-> TRUE, rows |-> rows]
            ELSE BackfillStore(transfers, i + 1, stored.rows, dbFail)

\* [...historicalTransfers].sort((a, b) => b.timestamp - a.timestamp)[0]:
\* the sort is stable, so the first record with the greatest timestamp
MostRecentIndex(transfers) ==
    CHOOSE i \in 1..Len(transfers) :
        /\ \A j \in 1..Len(transfers) : transfers[j].timestamp <= transfers[i].timestamp
        /\ \A j \in 1..(i - 1) : transfers[j].timestamp < transfers[i].timestamp

\* the loop alerting also for a transfer that is already stored
RECURSIVE ProcessTransfers_AlertExisting(_, _, _, _, _, _)
ProcessTransfers_AlertExisting(transfers, i, rows, sent, dbFail, slackFail) ==
    IF i > Len(transfers) THEN [threw |-> FALSE, rows |-> rows, alerts |-> sent]
    ELSE IF dbFail.at = i /\ dbFail.kind = "store"
      THEN [threw |-> TRUE, rows |-> rows, alerts |-> sent]
    ELSE LET stored == StoreIfAbsent(rows, transfers[i])
         IN IF stored.raised
              THEN [threw |-> TRUE, rows |-> rows, alerts |-> sent]
            ELSE IF dbFail.at = i /\ dbFail.kind = "stats"
              THEN [threw |-> TRUE, rows |-> stored.rows, alerts |-> sent]
            ELSE ProcessTransfers_AlertExisting(
                     transfers, i + 1, stored.rows,
                     IF transfers[i].hash \in slackFail
                       THEN sent
                       ELSE Append(sent, transfers[i].hash),
                     dbFail, slackFail)

\* monitoring loop, "for (const transfer of newTransfers)"
RECURSIVE ProcessTransfers(_, _, _, _, _, _)
ProcessTransfers(transfers, i, rows, sent, dbFail, slackFail) ==
    IF i > Len(transfers) THEN [threw |-> FALSE, rows |-> rows, alerts |-> sent]
    ELSE IF dbFail.at = i /\ dbFail.kind = "store"
      THEN [threw |-> TRUE, rows |-> rows, alerts |-> sent]
    ELSE IF transferExists(rows, transfers[i].hash)
      THEN \* "Transfer already exists"
           ProcessTransfers(transfers, i + 1, rows, sent, dbFail, slackFail)
    ELSE LET stored == StoreIfAbsent(rows, transfers[i])
         IN IF stored.raised
              THEN [threw |-> TRUE, rows |-> rows, alerts |-> sent]
            ELSE IF dbFail.at = i /\ dbFail.kind = "stats"
              THEN [threw |-> TRUE, rows |-> stored.rows, alerts |-> sent]
            ELSE ProcessTransfers(transfers, i + 1, stored.rows,
                                  IF transfers[i].hash \in slackFail
                                    THEN sent
                                    ELSE Append(sent, transfers[i].hash),
                                  dbFail, slackFail)

\* bot.ts 168-186: timeSinceLast and aggregateStats for a transfer, read
\* from the table
AggregateStats(table, transfer) ==
    [timeSinceLast |->
        IF getPreviousTransferTimestamp(table, transfer.hash, transfer.timestamp) = <<>>
          THEN <<>>
        ELSE << transfer.timestamp
                  - getPreviousTransferTimestamp(table, transfer.hash,
                                                 transfer.timestamp)[1] >>,
     totalTokens |-> getTotalTokensSent(table),
     totalTransactions |-> getTransferCount(table, recipientAddress),
     averageTimeBetween |-> getAverageTimeBetweenTransfers(table),
     totalInitiators |-> getTotalInitiators(table)]

\* the statistics read before the transfer is written
StoreAndAggregate_StatsFirst(table, transfer) ==
    [raised |-> addTransfer(table, transfer).raised,
     rows |-> addTransfer(table, transfer).rows,
     stats |-> AggregateStats(table, transfer)]

\* bot.ts 164-186: db.addTransfer(transfer), then the statistics
StoreAndAggregate(table, transfer) ==
    [raised |-> addTransfer(table, transfer).raised,
     rows |-> addTransfer(table, transfer).rows,
     stats |-> AggregateStats(addTransfer(table, transfer).rows, transfer)]

\* the loop restarted by a timer (setInterval), whatever the tick is doing
TickMayStart_Interval(at) == at # "height"

\* "await new Promise(resolve => setTimeout(resolve, pollInterval * 1000))"
\* is the last statement of the loop body: the next tick starts from there
TickMayStart(at) == at = "sleep"

\* the loop body without try/catch: the rejection ends main()
OnTickError_Fatal(at) == "exit"

\* "catch (error) { console.error(...) }" of the loop body, for an error
\* raised at step at: control goes on to the sleep
OnTickError(at) == "sleep"

(***************************************************************************)
(* State.                                                                  *)
(***************************************************************************)
VARIABLES
    pc,                \* main: "start" before the first-run check, "loop" after
    lastCheckedBlock,  \* EthereumMonitor.lastCheckedBlock
    rows,              \* the token_transfers table
    alerts,            \* hashes for which sendTransferAlert succeeded, in order
    windows,           \* windows checkForNewTransfers passed to the scanner
    lastPoll,          \* what the last tick of the monitoring loop did: the
                       \* poll's result, the gateway's answer to the logs
                       \* query, the transactions it should have stored, the
                       \* record at which the store failed
    lastScan,          \* the last direct scanBlocksForTransfers call
    lastDb,            \* the last direct TransactionDatabase call
    lastLocate,        \* the last direct getBlockNumberForDate calls
    loop,              \* the monitoring loop between its awaits: the scans in
                       \* flight, the batch being processed, the position in
                       \* it, the notifier invocations made
    mig,               \* a database file and the opening in progress on it:
                       \* the file (db), the statement the constructor is at
                       \* (step), the loop variable of runMigrations, and what
                       \* has happened to the file so far
    run                \* the runs of the process: how often it was started
                       \* again, and the cursor and the number of scanned
                       \* windows when the last run ended

vars == <<pc, lastCheckedBlock, rows, alerts, windows, lastPoll, lastScan, lastDb,
          lastLocate, loop, mig, run>>

NoPoll ==
    [threw |-> FALSE, lastCheckedBlock |-> NoBlock, scanned |-> FALSE,
     startBlock |-> 0, endBlock |-> 0, raised |-> FALSE, records |-> <<>>,
     getPastLogs |-> "ok", eligible |-> {}, cursorBefore |-> NoBlock,
     tickThrew |-> FALSE, failedHash |-> NULL, polled |-> FALSE,
     slackFail |-> {}, storedBefore |-> {}]

NoLastScan ==
    [called |-> FALSE, startBlock |-> 0, endBlock |-> 0, getPastLogs |-> "ok",
     logs |-> <<>>, lookups |-> <<>>, raised |-> FALSE, records |-> <<>>]

NoDb ==
    [op |-> "none", hash |-> NULL, burnerAddress |-> NULL, wasStored |-> FALSE,
     raised |-> FALSE, changed |-> FALSE,
     stats |-> [count |-> 0, rank |-> 0, totalBurners |-> 0],
     value |-> 0, readBack |-> 0, total |-> 0, average |-> <<>>,
     limit |-> 0, top |-> <<>>,
     pivot |-> 0, previous |-> <<>>, now |-> 0, maxDays |-> 0, series |-> <<>>]

NoLocate ==
    [called |-> FALSE, chain |-> MainChain, height |-> 0, failing |-> {},
     t1 |-> 0, t2 |-> 0, block1 |-> <<>>, block2 |-> <<>>,
     probes1 |-> <<>>, probes2 |-> <<>>]

NoRun == [restarts |-> 0, scannedBefore |-> NoBlock, windowsBefore |-> 0]

\* db: a database file without tables, PRAGMA user_version 0
NoMig ==
    [db |-> [user_version |-> 0, token_transfers |-> <<>>,
            token_transfers_new |-> <<>>],
     step |-> "closed", version |-> 0, versionAtOpen |-> 0,
     legacy |-> <<>>, opens |-> 0, bodyRuns |-> 0, copies |-> 0,
     interrupted |-> FALSE]

NoLoop ==
    [scans |-> 0, startBlock |-> 0, endBlock |-> 0, records |-> <<>>, i |-> 0,
     threw |-> FALSE, pending |-> <<>>, calls |-> <<>>]

(***************************************************************************)
(* Inputs of the environment.                                              *)
(***************************************************************************)
\* getBlockNumber(): <<h>>, or <<>> when it rejects
HeightResults == {<<>>} \cup { <<h>> : h \in HeightSet }

\* a well-formed Transfer log: three topics, the event signature, a payload
\* that reads as an integer, and the fields the loop requires
WellFormed(log) ==
    /\ log.transactionHash # NULL
    /\ log.blockNumber # 0
    /\ Len(log.topics) = 3
    /\ log.topics[1] = TRANSFER_EVENT_SIGNATURE
    /\ log.data # <<>>

Matching(log) == WellFormed(log) /\ log.data[1] = targetAmount

MatchingTxs ==
    { ChainLogs[i].transactionHash : i \in { j \in 1..Len(ChainLogs) : Matching(ChainLogs[j]) } }

\* the transactions whose lookups reject during one call
LookupFailures == {{}} \cup { {t} : t \in MatchingTxs }

\* the records for which the notifier rejects during one call
SlackFailures == {{}} \cup { {t} : t \in MatchingTxs }

ChainGateway(getPastLogs, bad) ==
    [getPastLogs |-> getPastLogs,
     logs |-> ChainLogs,
     lookups |-> [i \in 1..Len(ChainLogs) |->
                    IF ChainLogs[i].transactionHash \in bad THEN "fail" ELSE "ok"]]

DbFailures(n) ==
    {[at |-> 0, kind |-> "store"]}
      \cup { [at |-> i, kind |-> k] : i \in 1..n, k \in {"store", "stats"} }

\* new Date('2025-12-27T17:00:00Z') relative to the modelled chain: inside
\* the early blocks, inside the late blocks, after the latest block
StartDates ==
    { secondsPerBlock \div 2,
      secondsPerBlock * FirstRunLookback + secondsPerBlock \div 2,
      secondsPerBlock * (FirstRunLookback + MaxHeightSpan) + 50 * secondsPerBlock }

ProbeFailures == { {}, {(FirstRunLookback + MaxHeightSpan) \div 2} }

\* rows a previous run of the process left in the database file
PreviousRows ==
    << Row(TokenTransfer(ChainLogs[1], parseTransferEvent(ChainLogs[1]))) >>

(***************************************************************************)
(* The process: first-run backfill, then the monitoring loop.              *)
(***************************************************************************)
Init ==
    /\ pc = "start"
    /\ lastCheckedBlock = NoBlock
    /\ rows \in { <<>>, PreviousRows }
    /\ alerts = <<>>
    /\ windows = <<>>
    /\ lastPoll = NoPoll
    /\ lastScan = NoLastScan
    /\ lastDb = NoDb
    /\ lastLocate = NoLocate
    /\ loop = NoLoop
    /\ mig = NoMig
    /\ run = NoRun

\* the hashes of the records of a batch
Hashes(transfers) == { transfers[k].hash : k \in 1..Len(transfers) }

\* bot.ts 84-113: whether the backfill ends with a transfer alert
SendsSummary(hist, stored, dbFail, slackFail) ==
    /\ ~hist.threw
    /\ ~stored.threw
    /\ Len(hist.records) > 0
    /\ ~(dbFail.at > 0 /\ dbFail.kind = "stats")
    /\ hist.records[MostRecentIndex(hist.records)].hash \notin slackFail

\* isFirstRun: the backfill, bot.ts 68-139
FirstRunBackfill ==
    /\ pc = "start"
    /\ getTransferCount(rows, recipientAddress) = 0
    /\ \E height1 \in HeightResults, height2 \in HeightResults,
          startDate \in StartDates, failing \in ProbeFailures,
          getPastLogs \in {"ok", "fail"}, bad \in LookupFailures :
        \E hist \in { getHistoricalTransfers(startDate, height1, height2, failing,
                                             ChainGateway(getPastLogs, bad)) } :
        \E dbFail \in DbFailures(Len(hist.records)),
           slackFail \in {{}} \cup { {t} : t \in Hashes(hist.records) } :
        \E stored \in { BackfillStore(hist.records, 1, rows, dbFail) } :
            /\ rows' = IF hist.threw THEN rows ELSE stored.rows
            /\ alerts' = IF SendsSummary(hist, stored, dbFail, slackFail)
                           THEN Append(alerts,
                                       hist.records[MostRecentIndex(hist.records)].hash)
                         ELSE alerts
    /\ pc' = "loop"
    /\ UNCHANGED <<lastCheckedBlock, windows, lastPoll, lastScan, lastDb, lastLocate, loop, mig, run>>

\* the database already holds transfers: no backfill
SkipBackfill ==
    /\ pc = "start"
    /\ getTransferCount(rows, recipientAddress) # 0
    /\ pc' = "loop"
    /\ UNCHANGED <<lastCheckedBlock, rows, alerts, windows, lastPoll, lastScan, lastDb, lastLocate, loop, mig, run>>

\* the transactions with a matching log in the window of a poll whose lookups
\* the gateway answers during that poll
Eligible(poll, gateway) ==
    IF ~poll.scanned THEN {}
    ELSE { ChainLogs[i].transactionHash :
             i \in { j \in 1..Len(ChainLogs) :
                       /\ Matching(ChainLogs[j])
                       /\ poll.startBlock <= ChainLogs[j].blockNumber
                       /\ ChainLogs[j].blockNumber <= poll.endBlock
                       /\ gateway.lookups[j] = "ok" } }

\* one iteration of "while (true)", bot.ts 152-208
MonitorTick ==
    /\ pc = "loop"
    /\ \E height \in HeightResults, getPastLogs \in {"ok", "fail"},
          bad \in LookupFailures :
        \E gateway \in { ChainGateway(getPastLogs, bad) } :
        \E poll \in { checkForNewTransfers(lastCheckedBlock, height, gateway) } :
        \E eligible \in { Eligible(poll, gateway) } :
           /\ poll.scanned => Len(windows) < MaxPolls
           \* inputs that no call of this tick reads are left at their defaults
           /\ ~poll.scanned => (getPastLogs = "ok" /\ bad = {})
           /\ getPastLogs = "fail" => bad = {}
           /\ \E dbFail \in DbFailures(Len(poll.records)),
                 slackFail \in {{}} \cup { {t} : t \in Hashes(poll.records) } :
              \E done \in { IF poll.threw
                               THEN [threw |-> TRUE, rows |-> rows, alerts |-> alerts]
                             ELSE ProcessTransfers(poll.records, 1, rows, alerts,
                                                   dbFail, slackFail) } :
                   /\ lastCheckedBlock' = poll.lastCheckedBlock
                   /\ windows' = IF poll.scanned
                                    THEN Append(windows, <<poll.startBlock, poll.endBlock>>)
                                  ELSE windows
                   /\ rows' = done.rows
                   /\ alerts' = done.alerts
                   /\ lastPoll' = [poll EXCEPT !.getPastLogs = getPastLogs,
                                               !.eligible = eligible,
                                               !.cursorBefore = lastCheckedBlock,
                                               !.tickThrew = done.threw,
                                               !.slackFail = slackFail,
                                               !.storedBefore =
                                                   { rows[k].tx_hash : k \in 1..Len(rows) },
                                               !.failedHash =
                                                   IF dbFail.at = 0 THEN NULL
                                                   ELSE poll.records[dbFail.at].hash]
    /\ UNCHANGED <<pc, lastScan, lastDb, lastLocate, loop, mig, run>>

Next ==
    \/ FirstRunBackfill
    \/ SkipBackfill
    \/ MonitorTick

Spec == Init /\ [][Next]_vars

(***************************************************************************)
(* The monitoring loop between its awaits: the height query, the scan in   *)
(* flight, the synchronous store calls of one record, the notifier call in *)
(* flight, the sleep.  pc is the statement main() waits at.                *)
(***************************************************************************)
InitLoop ==
    /\ pc = "height"
    /\ lastCheckedBlock = NoBlock
    /\ rows \in { <<>>, PreviousRows }
    /\ alerts = <<>>
    /\ windows = <<>>
    /\ lastPoll = NoPoll
    /\ lastScan = NoLastScan
    /\ lastDb = NoDb
    /\ lastLocate = NoLocate
    /\ loop = NoLoop
    /\ mig = NoMig
    /\ run = NoRun

\* where main() goes after record i of the batch: the next record, or the sleep
AfterRecord(i, records) ==
    IF i + 1 > Len(records) THEN "sleep" ELSE "persist"

\* checkForNewTransfers up to its await of the scan: getLatestBlockNumber
\* answers, the window is computed, the scan is issued
LoopHeightQuery ==
    /\ pc = "height"
    /\ \E height \in HeightResults :
        IF height = <<>>
          THEN /\ pc' = OnTickError("height")
               /\ loop' = [loop EXCEPT !.threw = TRUE]
               /\ UNCHANGED lastCheckedBlock
        ELSE /\ lastCheckedBlock' = IF lastCheckedBlock = NoBlock
                                      THEN height[1] ELSE lastCheckedBlock
             /\ IF PollStart(lastCheckedBlock, height[1]) > height[1]
                  THEN /\ pc' = "sleep"
                       /\ loop' = [loop EXCEPT !.threw = FALSE, !.records = <<>>,
                                               !.i = 0]
                ELSE /\ pc' = "scan"
                     /\ loop' = [loop EXCEPT
                                   !.threw = FALSE,
                                   !.scans = loop.scans + 1,
                                   !.startBlock = PollStart(lastCheckedBlock, height[1]),
                                   !.endBlock = height[1],
                                   !.records = <<>>,
                                   !.i = 0]
    /\ UNCHANGED <<rows, alerts, windows, lastPoll, lastScan, lastDb, lastLocate, mig, run>>

\* the scan settles: the cursor moves to the end of the window
LoopScanDone ==
    /\ pc = "scan"
    /\ \E getPastLogs \in {"ok", "fail"}, bad \in LookupFailures :
        \E scan \in { scanBlocksForTransfers(loop.startBlock, loop.endBlock,
                                              ChainGateway(getPastLogs, bad)) } :
            /\ getPastLogs = "fail" => bad = {}
            /\ lastCheckedBlock' = loop.endBlock
            /\ loop' = [loop EXCEPT !.scans = loop.scans - 1,
                                    !.records = scan.records,
                                    !.i = 1]
            /\ pc' = IF scan.records = <<>> THEN "sleep" ELSE "persist"
    /\ UNCHANGED <<rows, alerts, windows, lastPoll, lastScan, lastDb, lastLocate, mig, run>>

\* one record of the batch up to its await of the notifier: the existence
\* check, the insert, the statistics, the notifier call issued
LoopPersist ==
    /\ pc = "persist"
    /\ \E fail \in {"none", "store", "stats"} :
        \E transfer \in { loop.records[loop.i] } :
        IF fail = "store"
          THEN /\ pc' = OnTickError("persist")
               /\ loop' = [loop EXCEPT !.threw = TRUE]
               /\ UNCHANGED rows
        ELSE IF transferExists(rows, transfer.hash)
          THEN /\ fail = "none"
               /\ pc' = AfterRecord(loop.i, loop.records)
               /\ loop' = [loop EXCEPT !.i = loop.i + 1]
               /\ UNCHANGED rows
        ELSE \E done \in { StoreAndAggregate(rows, transfer) } :
               IF done.raised
                 THEN /\ fail = "none"
                      /\ pc' = OnTickError("persist")
                      /\ loop' = [loop EXCEPT !.threw = TRUE]
                      /\ UNCHANGED rows
               ELSE IF fail = "stats"
                 THEN /\ pc' = OnTickError("persist")
                      /\ loop' = [loop EXCEPT !.threw = TRUE]
                      /\ rows' = done.rows
               ELSE /\ pc' = "notify"
                    /\ rows' = done.rows
                    /\ loop' = [loop EXCEPT
                                  !.pending = << transfer.hash >>,
                                  !.calls = Append(loop.calls,
                                                   [hash |-> transfer.hash,
                                                    timestamp |-> transfer.timestamp,
                                                    stats |-> done.stats])]
    /\ UNCHANGED <<lastCheckedBlock, alerts, windows, lastPoll, lastScan, lastDb,
                   lastLocate, mig, run>>

\* sendTransferAlert settles; a rejection is caught and logged
LoopNotifyDone ==
    /\ pc = "notify"
    /\ \E delivered \in BOOLEAN :
        alerts' = IF delivered THEN Append(alerts, loop.pending[1]) ELSE alerts
    /\ pc' = AfterRecord(loop.i, loop.records)
    /\ loop' = [loop EXCEPT !.pending = <<>>, !.i = loop.i + 1]
    /\ UNCHANGED <<lastCheckedBlock, rows, windows, lastPoll, lastScan, lastDb,
                   lastLocate, mig, run>>

\* the poll interval elapses: the next iteration of "while (true)"
LoopTimer ==
    /\ TickMayStart(pc)
    /\ pc # "exit"
    /\ pc' = "height"
    /\ UNCHANGED <<lastCheckedBlock, rows, alerts, windows, lastPoll, lastScan,
                   lastDb, lastLocate, loop, mig, run>>

NextLoop ==
    \/ LoopHeightQuery
    \/ LoopScanDone
    \/ LoopPersist
    \/ LoopNotifyDone
    \/ LoopTimer

SpecLoop == InitLoop /\ [][NextLoop]_vars

\* every awaited promise settles and the timer fires
SpecLoopFair == SpecLoop /\ WF_vars(NextLoop)

(***************************************************************************)
(* The scanner on its own: scanBlocksForTransfers called on any short log  *)
(* list the gateway may return, the i-th log lying in block i.             *)
(***************************************************************************)
GoodTopics == <<TRANSFER_EVENT_SIGNATURE, Topic("0xa"), Topic(recipientAddress)>>
ShortTopics == <<TRANSFER_EVENT_SIGNATURE, Topic("0xa")>>
OtherEventTopics == <<"Approval", Topic("0xa"), Topic(recipientAddress)>>
\* a Transfer of the token to another recipient, which a gateway that does
\* not apply the topic filter returns
ForeignTopics == <<TRANSFER_EVENT_SIGNATURE, Topic("0xa"), Topic("0xother")>>

LogShapes ==
    [transactionHash : {"t1", NULL},
     topics : {GoodTopics, ShortTopics, OtherEventTopics, ForeignTopics},
     data : {<<targetAmount>>, <<targetAmount + 1>>, <<>>}]

LogLists ==
    UNION { [1..n -> LogShapes] : n \in 0..MaxLogs }

LedgerLogs(shapes) ==
    [i \in 1..Len(shapes) |->
        [transactionHash |-> shapes[i].transactionHash, blockNumber |-> i,
         topics |-> shapes[i].topics, data |-> shapes[i].data, sender |-> "0xc"]]

InitScan ==
    /\ pc = "api"
    /\ lastCheckedBlock = NoBlock
    /\ rows = <<>>
    /\ alerts = <<>>
    /\ windows = <<>>
    /\ lastPoll = NoPoll
    /\ lastScan = NoLastScan
    /\ lastDb = NoDb
    /\ lastLocate = NoLocate
    /\ loop = NoLoop
    /\ mig = NoMig
    /\ run = NoRun

ScanCall ==
    /\ pc = "api"
    /\ ~lastScan.called
    /\ \E shapes \in LogLists, getPastLogs \in {"ok", "fail"}, startBlock \in 1..2 :
        \E lookups \in [1..Len(shapes) -> {"ok", "empty", "fail"}] :
        \E gateway \in { [getPastLogs |-> getPastLogs, logs |-> LedgerLogs(shapes),
                           lookups |-> lookups] } :
        \E scan \in { scanBlocksForTransfers(startBlock, MaxLogs, gateway) } :
            \* lookups that no call reads are left at their defaults
            /\ getPastLogs = "fail" => \A i \in 1..Len(shapes) : lookups[i] = "ok"
            /\ lastScan' = [called |-> TRUE, startBlock |-> startBlock,
                            endBlock |-> MaxLogs, getPastLogs |-> getPastLogs,
                            logs |-> gateway.logs, lookups |-> lookups,
                            raised |-> scan.raised, records |-> scan.records]
    /\ UNCHANGED <<pc, lastCheckedBlock, rows, alerts, windows, lastPoll, lastDb, lastLocate, loop, mig, run>>

NextScan == ScanCall

SpecScan == InitScan /\ [][NextScan]_vars

(***************************************************************************)
(* The store on its own: any sequence of addTransfer and getBurnerStats    *)
(* calls.  A new transaction id is the next unused one of DbHashes.        *)
(***************************************************************************)
DbHashes == <<"h1", "h2", "h3", "h4", "h5", "h6", "h7", "h8">>
Burners == {"0xa", "0xb", "0xc"}

DbTransfer(hash, bn, burnerAddress) ==
    [hash |-> hash, blockNumber |-> bn, from |-> "0xfrom", to |-> recipientAddress,
     value |-> targetAmount, timestamp |-> BlockTimestamp(bn) * 1000,
     burnerAddress |-> burnerAddress]

InitDb ==
    /\ pc = "api"
    /\ lastCheckedBlock = NoBlock
    /\ rows = <<>>
    /\ alerts = <<>>
    /\ windows = <<>>
    /\ lastPoll = NoPoll
    /\ lastScan = NoLastScan
    /\ lastDb = NoDb
    /\ lastLocate = NoLocate
    /\ loop = NoLoop
    /\ mig = NoMig
    /\ run = NoRun

\* addTransfer of a new transfer (k = Len(rows) + 1), or once more of the
\* transfer stored as row k
DbAddTransfer ==
    /\ pc = "api"
    /\ \E k \in 1..Min(Len(rows) + 1, Min(MaxRows, Len(DbHashes))),
          burnerAddress \in Burners \cup {NULL} :
        \E res \in { addTransfer(rows, DbTransfer(DbHashes[k], k, burnerAddress)) } :
            /\ k <= Len(rows) => burnerAddress = rows[k].burner_address
            /\ rows' = res.rows
            /\ lastDb' = [NoDb EXCEPT !.op = "addTransfer",
                                      !.hash = DbHashes[k],
                                      !.burnerAddress = burnerAddress,
                                      !.wasStored = transferExists(rows, DbHashes[k]),
                                      !.raised = res.raised,
                                      !.changed = (res.rows # rows)]
    /\ UNCHANGED <<pc, lastCheckedBlock, alerts, windows, lastPoll, lastScan, lastLocate, loop, mig, run>>

DbGetBurnerStats ==
    /\ pc = "api"
    /\ \E burnerAddress \in Burners :
        lastDb' = [NoDb EXCEPT !.op = "getBurnerStats",
                              !.burnerAddress = burnerAddress,
                              !.stats = getBurnerStats(rows, burnerAddress)]
    /\ UNCHANGED <<pc, lastCheckedBlock, rows, alerts, windows, lastPoll, lastScan, lastLocate, loop, mig, run>>

NextDb ==
    \/ DbAddTransfer
    \/ DbGetBurnerStats

SpecDb == InitDb /\ [][NextDb]_vars

(***************************************************************************)
(* The locator on its own: getBlockNumberForDate called twice against one  *)
(* chain state, for target times t1 <= t2.                                 *)
(***************************************************************************)
\* seconds between two target times: 500 blocks of 12 seconds
TargetStep == 6000

TargetTimes ==
    { TargetStep * j + d : j \in 0..MaxTargetSteps, d \in {0, 5} }

\* chains whose blocks come faster or slower than every 12 seconds, before
\* and after mergeHeight
Chains ==
    { c \in [earlyBlockTime : {6, 12, 24}, lateBlockTime : {6, 12, 24},
              mergeHeight : {0, SearchRadius + SearchRadius \div 2}] :
        c.mergeHeight = 0 => c.earlyBlockTime = c.lateBlockTime }

LocateHeights == {0, SearchRadius \div 2, 3 * SearchRadius}

\* heights whose getBlock probe rejects
LocateFailures == { {}, {SearchRadius}, 0..(3 * SearchRadius - 1) }

InitLocate ==
    /\ pc = "api"
    /\ lastCheckedBlock = NoBlock
    /\ rows = <<>>
    /\ alerts = <<>>
    /\ windows = <<>>
    /\ lastPoll = NoPoll
    /\ lastScan = NoLastScan
    /\ lastDb = NoDb
    /\ lastLocate = NoLocate
    /\ loop = NoLoop
    /\ mig = NoMig
    /\ run = NoRun

LocateCall ==
    /\ pc = "api"
    /\ ~lastLocate.called
    /\ \E chain \in Chains, height \in LocateHeights, failing \in LocateFailures,
          t1 \in TargetTimes, t2 \in TargetTimes :
        /\ t1 <= t2
        /\ lastLocate' =
              [called |-> TRUE, chain |-> chain, height |-> height,
               failing |-> failing, t1 |-> t1, t2 |-> t2,
               block1 |-> getBlockNumberForDate(t1, <<height>>, failing, chain),
               block2 |-> getBlockNumberForDate(t2, <<height>>, failing, chain),
               probes1 |-> LocatorProbes(t1, <<height>>, failing, chain),
               probes2 |-> LocatorProbes(t2, <<height>>, failing, chain)]
    /\ UNCHANGED <<pc, lastCheckedBlock, rows, alerts, windows, lastPoll, lastScan,
                   lastDb, loop, mig, run>>

NextLocate == LocateCall

SpecLocate == InitLocate /\ [][NextLocate]_vars

(***************************************************************************)
(* The statistics of the store: rows of any blocks, in any insertion       *)
(* order, followed by calls of getAverageTimeBetweenTransfers,             *)
(* getTotalTokensSent and getTopBurners.                                   *)
(***************************************************************************)
StatBlocks == 1..3

\* the blocks lie at 0 h, 24 h and 72 h (milliseconds)
StatTimestamp(bn) ==
    IF bn = 1 THEN 0 ELSE IF bn = 2 THEN MsPerDay ELSE 3 * MsPerDay

StatBurners == {"0xa", "0xb", NULL}

\* 0xb sends amounts that do not fit 64 bits
StatAmount(burnerAddress) ==
    IF burnerAddress = "0xb" THEN Int64MaxTokens + 3 ELSE targetAmount

StatTransfer(hash, bn, burnerAddress) ==
    [hash |-> hash, blockNumber |-> bn, from |-> "0xfrom", to |-> recipientAddress,
     value |-> StatAmount(burnerAddress), timestamp |-> StatTimestamp(bn),
     burnerAddress |-> burnerAddress]

InitStats ==
    /\ pc = "api"
    /\ lastCheckedBlock = NoBlock
    /\ rows = <<>>
    /\ alerts = <<>>
    /\ windows = <<>>
    /\ lastPoll = NoPoll
    /\ lastScan = NoLastScan
    /\ lastDb = NoDb
    /\ lastLocate = NoLocate
    /\ loop = NoLoop
    /\ mig = NoMig
    /\ run = NoRun

StatsAddTransfer ==
    /\ pc = "api"
    /\ Len(rows) < Min(MaxStatRows, Len(DbHashes))
    /\ \E bn \in StatBlocks, burnerAddress \in StatBurners :
        \E transfer \in { StatTransfer(DbHashes[Len(rows) + 1], bn, burnerAddress) } :
        \E res \in { addTransfer(rows, transfer) } :
            /\ rows' = res.rows
            /\ lastDb' = [NoDb EXCEPT !.op = "addTransfer",
                                      !.hash = transfer.hash,
                                      !.burnerAddress = burnerAddress,
                                      !.raised = res.raised,
                                      !.changed = (res.rows # rows),
                                      !.value = transfer.value,
                                      \* getTransferHistory: BigInt(row.value)
                                      !.readBack =
                                          BigInt(res.rows[Len(res.rows)].value)]
    /\ UNCHANGED <<pc, lastCheckedBlock, alerts, windows, lastPoll, lastScan,
                   lastLocate, loop, mig, run>>

StatsGetAverage ==
    /\ pc = "api"
    /\ lastDb' = [NoDb EXCEPT !.op = "getAverageTimeBetweenTransfers",
                              !.average = getAverageTimeBetweenTransfers(rows)]
    /\ UNCHANGED <<pc, lastCheckedBlock, rows, alerts, windows, lastPoll, lastScan,
                   lastLocate, loop, mig, run>>

StatsGetTotal ==
    /\ pc = "api"
    /\ lastDb' = [NoDb EXCEPT !.op = "getTotalTokensSent",
                              !.total = getTotalTokensSent(rows)]
    /\ UNCHANGED <<pc, lastCheckedBlock, rows, alerts, windows, lastPoll, lastScan,
                   lastLocate, loop, mig, run>>

StatsGetTopBurners ==
    /\ pc = "api"
    /\ \E limit \in 0..3 :
        \E top \in getTopBurners(rows, limit) :
            lastDb' = [NoDb EXCEPT !.op = "getTopBurners",
                                  !.limit = limit,
                                  !.top = top]
    /\ UNCHANGED <<pc, lastCheckedBlock, rows, alerts, windows, lastPoll, lastScan,
                   lastLocate, loop, mig, run>>

NextStats ==
    \/ StatsAddTransfer
    \/ StatsGetAverage
    \/ StatsGetTotal
    \/ StatsGetTopBurners

SpecStats == InitStats /\ [][NextStats]_vars

(***************************************************************************)
(* The history queries of the store: rows of any blocks and times, then    *)
(* getPreviousTransferTimestamp for a stored record and                    *)
(* getDaily7DayMovingAverage at some time of the clock.                    *)
(***************************************************************************)
HistBlocks == 1..2

\* noon of the days 0, 1, 7 and 8 (milliseconds)
HistTimes == { d * MsPerDay + MsPerDay \div 2 : d \in {0, 1, 7, 8} }

\* new Date() at the time of a call: the morning of day 8 or of day 9
HistNow == { d * MsPerDay + MsPerHour : d \in {8, 9} }

\* the default of maxDays, and a value below the days of history
HistMaxDays == {30, 3}

HistTransfer(hash, bn, timestamp) ==
    [hash |-> hash, blockNumber |-> bn, from |-> "0xfrom", to |-> recipientAddress,
     value |-> targetAmount, timestamp |-> timestamp, burnerAddress |-> "0xa"]

InitHist ==
    /\ pc = "api"
    /\ lastCheckedBlock = NoBlock
    /\ rows = <<>>
    /\ alerts = <<>>
    /\ windows = <<>>
    /\ lastPoll = NoPoll
    /\ lastScan = NoLastScan
    /\ lastDb = NoDb
    /\ lastLocate = NoLocate
    /\ loop = NoLoop
    /\ mig = NoMig
    /\ run = NoRun

HistAddTransfer ==
    /\ pc = "api"
    /\ Len(rows) < Min(MaxHistRows, Len(DbHashes))
    /\ \E bn \in HistBlocks, timestamp \in HistTimes :
        \E res \in { addTransfer(rows, HistTransfer(DbHashes[Len(rows) + 1], bn,
                                                     timestamp)) } :
            /\ rows' = res.rows
            /\ lastDb' = [NoDb EXCEPT !.op = "addTransfer",
                                      !.hash = DbHashes[Len(rows) + 1],
                                      !.raised = res.raised,
                                      !.changed = (res.rows # rows)]
    /\ UNCHANGED <<pc, lastCheckedBlock, alerts, windows, lastPoll, lastScan,
                   lastLocate, loop, mig, run>>

\* getPreviousTransferTimestamp(r.hash, r.timestamp) for the stored record r
HistGetPrevious ==
    /\ pc = "api"
    /\ \E k \in 1..Len(rows) :
        lastDb' = [NoDb EXCEPT
                     !.op = "getPreviousTransferTimestamp",
                     !.hash = rows[k].tx_hash,
                     !.pivot = k,
                     !.previous =
                         getPreviousTransferTimestamp(rows, rows[k].tx_hash,
                                                      DateParse(rows[k].timestamp))]
    /\ UNCHANGED <<pc, lastCheckedBlock, rows, alerts, windows, lastPoll, lastScan,
                   lastLocate, loop, mig, run>>

HistGetMovingAverage ==
    /\ pc = "api"
    /\ \E now \in HistNow, maxDays \in HistMaxDays :
        lastDb' = [NoDb EXCEPT
                     !.op = "getDaily7DayMovingAverage",
                     !.now = now,
                     !.maxDays = maxDays,
                     !.series = getDaily7DayMovingAverage(rows, now, maxDays)]
    /\ UNCHANGED <<pc, lastCheckedBlock, rows, alerts, windows, lastPoll, lastScan,
                   lastLocate, loop, mig, run>>

NextHist ==
    \/ HistAddTransfer
    \/ HistGetPrevious
    \/ HistGetMovingAverage

SpecHist == InitHist /\ [][NextHist]_vars

(***************************************************************************)
(* The process stopped and started again on a database file that holds     *)
(* transfers: the monitor is constructed anew (lastCheckedBlock = null),   *)
(* main() finds the store non-empty and goes to the loop.  windows keeps   *)
(* the windows of all runs; run.windowsBefore tells where the last run     *)
(* ended.                                                                  *)
(***************************************************************************)
InitRestart ==
    /\ pc = "start"
    /\ lastCheckedBlock = NoBlock
    /\ rows = PreviousRows
    /\ alerts = <<>>
    /\ windows = <<>>
    /\ lastPoll = NoPoll
    /\ lastScan = NoLastScan
    /\ lastDb = NoDb
    /\ lastLocate = NoLocate
    /\ loop = NoLoop
    /\ mig = NoMig
    /\ run = NoRun

\* the process ends while main() sleeps and is started again
Restart ==
    /\ pc = "loop"
    /\ run.restarts < MaxRestarts
    /\ run' = [restarts |-> run.restarts + 1,
               scannedBefore |-> lastCheckedBlock,
               windowsBefore |-> Len(windows)]
    /\ lastCheckedBlock' = NoBlock
    /\ pc' = "start"
    /\ UNCHANGED <<rows, alerts, windows, lastPoll, lastScan, lastDb, lastLocate,
                   loop, mig>>

NextRestart ==
    \/ SkipBackfill
    \/ MonitorTick
    \/ Restart

SpecRestart == InitRestart /\ [][NextRestart]_vars

(***************************************************************************)
(* The backfill query on its own: getHistoricalTransfers called once, its  *)
(* two height queries answered separately (the chain may grow between      *)
(* them).  lastLocate keeps the call it makes to the locator, lastScan the *)
(* call it makes to the scanner.                                           *)
(***************************************************************************)
InitBackfill ==
    /\ pc = "start"
    /\ lastCheckedBlock = NoBlock
    /\ rows = <<>>
    /\ alerts = <<>>
    /\ windows = <<>>
    /\ lastPoll = NoPoll
    /\ lastScan = NoLastScan
    /\ lastDb = NoDb
    /\ lastLocate = NoLocate
    /\ loop = NoLoop
    /\ mig = NoMig
    /\ run = NoRun

BackfillQuery ==
    /\ pc = "start"
    /\ \E height1 \in HeightResults, height2 \in HeightResults,
          startDate \in StartDates, failing \in ProbeFailures,
          getPastLogs \in {"ok", "fail"}, bad \in LookupFailures :
        \E hist \in { getHistoricalTransfers(startDate, height1, height2, failing,
                                             ChainGateway(getPastLogs, bad)) } :
            \* the chain does not shrink between the two queries
            /\ (height1 # <<>> /\ height2 # <<>>) => height1[1] <= height2[1]
            /\ getPastLogs = "fail" => bad = {}
            /\ lastLocate' = [lastLocate EXCEPT !.called = TRUE,
                                                !.height = height2,
                                                !.failing = failing,
                                                !.t1 = startDate]
            /\ lastScan' = [lastScan EXCEPT !.called = hist.scanned,
                                            !.startBlock = hist.startBlock,
                                            !.endBlock = hist.endBlock,
                                            !.getPastLogs = getPastLogs,
                                            !.raised = hist.threw,
                                            !.records = hist.records]
    /\ pc' = "loop"
    /\ UNCHANGED <<lastCheckedBlock, rows, alerts, windows, lastPoll, lastDb, loop, mig, run>>

NextBackfill == BackfillQuery

SpecBackfill == InitBackfill /\ [][NextBackfill]_vars

(***************************************************************************)
(* The schema of the database file: the constructor of TransactionDatabase *)
(* (runMigrations, then the rest of initializeSchema) one statement at a   *)
(* time, on a file that is new or that was written before the column       *)
(* initiator_address was renamed.  SQLite commits each statement on its    *)
(* own, the migration opens no transaction, so the process can stop        *)
(* between any two statements and the file keeps what was committed.       *)
(***************************************************************************)
LegacyRows ==
    << [tx_hash |-> "0xh1", address |-> "0xa"],
       [tx_hash |-> "0xh2", address |-> NULL] >>

LegacyFile(legacyRows) ==
    [user_version |-> 0,
     token_transfers |-> << [column |-> "initiator_address", rows |-> legacyRows] >>,
     token_transfers_new |-> <<>>]

InitMig ==
    /\ pc = "init"
    /\ lastCheckedBlock = <<>>
    /\ rows = <<>>
    /\ alerts = <<>>
    /\ windows = <<>>
    /\ lastPoll = NoPoll
    /\ lastScan = NoScan
    /\ lastDb = NoDb
    /\ lastLocate = NoLocate
    /\ loop = NoLoop
    /\ run = NoRun
    /\ \E legacyRows \in {<<>>, SubSeq(LegacyRows, 1, 1), LegacyRows} :
       \E file \in {NoMig.db, LegacyFile(legacyRows)} :
          mig = [NoMig EXCEPT !.db = file,
                              !.legacy = IF file = NoMig.db THEN <<>> ELSE legacyRows]

\* new TransactionDatabase(path): runMigrations reads the version
MigOpen ==
    /\ mig.step = "closed"
    /\ mig.opens < MaxOpenings
    /\ LET currentVersion == getSchemaVersion(mig.db)
           pending == PendingVersions(currentVersion)
       IN mig' = [mig EXCEPT
                     !.opens = @ + 1,
                     !.versionAtOpen = currentVersion,
                     !.version = IF pending = {} THEN CURRENT_SCHEMA_VERSION + 1
                                 ELSE CHOOSE v \in pending : \A w \in pending : v <= w,
                     !.step = "loop"]
    /\ UNCHANGED <<pc, lastCheckedBlock, rows, alerts, windows, lastPoll, lastScan,
                   lastDb, lastLocate, loop, run>>

\* the head of the loop of runMigrations
MigLoop ==
    /\ mig.step = "loop"
    /\ mig' = IF mig.version > CURRENT_SCHEMA_VERSION
                 THEN [mig EXCEPT !.step = "create_table"]
              ELSE IF mig.version = 1   \* migrations.get(version) is defined
                 THEN [mig EXCEPT !.step = "m1_table_info"]
              ELSE [mig EXCEPT !.db = setSchemaVersion(mig.db, mig.version),
                               !.version = @ + 1]
    /\ UNCHANGED <<pc, lastCheckedBlock, rows, alerts, windows, lastPoll, lastScan,
                   lastDb, lastLocate, loop, run>>

\* migration 1: PRAGMA table_info and the early return
MigTableInfo ==
    /\ mig.step = "m1_table_info"
    /\ mig' = [mig EXCEPT !.bodyRuns = @ + 1,
                          !.step = IF /\ mig.db.token_transfers # <<>>
                                      /\ mig.db.token_transfers[1].column
                                           = "initiator_address"
                                     THEN "m1_create"
                                   ELSE "m1_set_version"]
    /\ UNCHANGED <<pc, lastCheckedBlock, rows, alerts, windows, lastPoll, lastScan,
                   lastDb, lastLocate, loop, run>>

\* migration 1: CREATE TABLE token_transfers_new; an error leaves the
\* constructor through the catch of runMigrations, which rethrows
MigCreateNew ==
    /\ mig.step = "m1_create"
    /\ mig' = IF mig.db.token_transfers_new # <<>>
                 THEN \* table token_transfers_new already exists
                      [mig EXCEPT !.step = "failed"]
              ELSE [mig EXCEPT !.db.token_transfers_new =
                                   << [column |-> "burner_address", rows |-> <<>>] >>,
                               !.step = "m1_insert"]
    /\ UNCHANGED <<pc, lastCheckedBlock, rows, alerts, windows, lastPoll, lastScan,
                   lastDb, lastLocate, loop, run>>

\* migration 1: INSERT INTO token_transfers_new SELECT ..., initiator_address
\* as burner_address, ... FROM token_transfers
MigInsert ==
    /\ mig.step = "m1_insert"
    /\ mig' = [mig EXCEPT !.db.token_transfers_new =
                              << [column |-> "burner_address",
                                  rows |-> mig.db.token_transfers_new[1].rows
                                             \o mig.db.token_transfers[1].rows] >>,
                          !.copies = @ + 1,
                          !.step = "m1_drop"]
    /\ UNCHANGED <<pc, lastCheckedBlock, rows, alerts, windows, lastPoll, lastScan,
                   lastDb, lastLocate, loop, run>>

\* migration 1: DROP TABLE token_transfers
MigDrop ==
    /\ mig.step = "m1_drop"
    /\ mig' = [mig EXCEPT !.db.token_transfers = <<>>, !.step = "m1_rename"]
    /\ UNCHANGED <<pc, lastCheckedBlock, rows, alerts, windows, lastPoll, lastScan,
                   lastDb, lastLocate, loop, run>>

\* migration 1: ALTER TABLE token_transfers_new RENAME TO token_transfers
MigRename ==
    /\ mig.step = "m1_rename"
    /\ mig' = [mig EXCEPT !.db.token_transfers = mig.db.token_transfers_new,
                          !.db.token_transfers_new = <<>>,
                          !.step = "m1_index"]
    /\ UNCHANGED <<pc, lastCheckedBlock, rows, alerts, windows, lastPoll, lastScan,
                   lastDb, lastLocate, loop, run>>

\* migration 1: CREATE INDEX IF NOT EXISTS, three times
MigIndex ==
    /\ mig.step = "m1_index"
    /\ mig' = [mig EXCEPT !.step = "m1_set_version"]
    /\ UNCHANGED <<pc, lastCheckedBlock, rows, alerts, windows, lastPoll, lastScan,
                   lastDb, lastLocate, loop, run>>

\* runMigrations: setSchemaVersion(version) after the migration returned
MigSetVersion ==
    /\ mig.step = "m1_set_version"
    /\ mig' = [mig EXCEPT !.db = setSchemaVersion(mig.db, mig.version),
                          !.version = @ + 1,
                          !.step = "loop"]
    /\ UNCHANGED <<pc, lastCheckedBlock, rows, alerts, windows, lastPoll, lastScan,
                   lastDb, lastLocate, loop, run>>

\* initializeSchema: CREATE TABLE IF NOT EXISTS token_transfers and its
\* indexes
MigCreateTable ==
    /\ mig.step = "create_table"
    /\ mig' = [mig EXCEPT
                  !.db.token_transfers =
                      IF mig.db.token_transfers # <<>> THEN mig.db.token_transfers
                      ELSE << [column |-> "burner_address", rows |-> <<>>] >>,
                  !.step = "mark_new"]
    /\ UNCHANGED <<pc, lastCheckedBlock, rows, alerts, windows, lastPoll, lastScan,
                   lastDb, lastLocate, loop, run>>

\* initializeSchema: a file still at version 0 is marked current; the
\* constructor returns
MigMarkNew ==
    /\ mig.step = "mark_new"
    /\ mig' = [mig EXCEPT
                  !.db = IF getSchemaVersion(mig.db) = 0
                            THEN setSchemaVersion(mig.db, CURRENT_SCHEMA_VERSION)
                         ELSE mig.db,
                  !.step = "open"]
    /\ UNCHANGED <<pc, lastCheckedBlock, rows, alerts, windows, lastPoll, lastScan,
                   lastDb, lastLocate, loop, run>>

\* the process ends after the constructor returned or threw
MigClose ==
    /\ mig.step \in {"open", "failed"}
    /\ mig' = [mig EXCEPT !.step = "closed"]
    /\ UNCHANGED <<pc, lastCheckedBlock, rows, alerts, windows, lastPoll, lastScan,
                   lastDb, lastLocate, loop, run>>

\* the process stops while the constructor runs; the file keeps every
\* statement committed so far
MigStop ==
    /\ mig.step \notin {"closed", "open", "failed"}
    /\ mig' = [mig EXCEPT !.step = "closed", !.interrupted = TRUE]
    /\ UNCHANGED <<pc, lastCheckedBlock, rows, alerts, windows, lastPoll, lastScan,
                   lastDb, lastLocate, loop, run>>

NextMig ==
    \/ MigOpen
    \/ MigLoop
    \/ MigTableInfo
    \/ MigCreateNew
    \/ MigInsert
    \/ MigDrop
    \/ MigRename
    \/ MigIndex
    \/ MigSetVersion
    \/ MigCreateTable
    \/ MigMarkNew
    \/ MigClose
    \/ MigStop

SpecMig == InitMig /\ [][NextMig]_vars

(***************************************************************************)
(* Properties.                                                             *)
(***************************************************************************)

\* C1: the windows checkForNewTransfers passes to the scanner are non-empty,
\* each after the first starts at the end of the one before plus one (so
\* they are pairwise disjoint and jointly contiguous), the cursor is the end
\* of the last scanned window, and no tick lowers a cursor that was set.
WindowsContiguous ==
    /\ \A i \in 1..Len(windows) : windows[i][1] <= windows[i][2]
    /\ \A i \in 2..Len(windows) : windows[i][1] = windows[i - 1][2] + 1
    /\ \A i \in 1..Len(windows) : \A j \in (i + 1)..Len(windows) :
            windows[i][2] < windows[j][1]
    /\ Len(windows) > 0 => lastCheckedBlock = windows[Len(windows)][2]
    /\ lastPoll.cursorBefore # NoBlock => lastCheckedBlock >= lastPoll.cursorBefore

\* three windows were scanned, the second one reaching across the gap
\* between the early and the late heights
WindowsContiguousWitness ==
    /\ Len(windows) = 3
    /\ windows[1][2] < FirstRunLookback
    /\ windows[2][2] >= FirstRunLookback
    /\ windows[3][1] = windows[2][2] + 1

\* C2: after a tick whose logs query failed, the cursor is not advanced past
\* the failed window, so the next tick's window still contains it.
FailedWindowIsRetried ==
    (lastPoll.scanned /\ lastPoll.getPastLogs = "fail")
        => (lastCheckedBlock = NoBlock \/ lastCheckedBlock < lastPoll.startBlock)

\* C3: a scan whose logs query failed is surfaced to the caller as an error,
\* so that it differs from a scan that found nothing.
LogsFailureIsSurfaced ==
    (lastScan.called /\ lastScan.getPastLogs = "fail") => lastScan.raised

\* C4: after a tick whose logs query succeeded, every transaction with a
\* matching log in the tick's window whose lookups succeeded is a row of the
\* store, whatever failed while another record of the tick was processed.
NoMatchedTransferLost ==
    (lastPoll.scanned /\ lastPoll.getPastLogs = "ok")
        => \A t \in lastPoll.eligible \ {lastPoll.failedHash} :
               transferExists(rows, t)

\* C5: the store holds at most one row per transaction id.
OneRowPerTransaction ==
    \A i \in 1..Len(rows) : \A j \in 1..Len(rows) :
        rows[i].tx_hash = rows[j].tx_hash => i = j

\* a tick whose scan returned the same transaction id twice, which is stored
OneRowPerTransactionWitness ==
    /\ lastPoll.scanned
    /\ \E k \in 1..Len(lastPoll.records) : \E l \in 1..Len(lastPoll.records) :
          /\ k # l
          /\ lastPoll.records[k].hash = lastPoll.records[l].hash
          /\ transferExists(rows, lastPoll.records[k].hash)
    /\ Len(rows) >= 2

\* C6 as stated: addTransfer of a stored transaction id is a no-op success.
DuplicateInsertIsNoOp ==
    (lastDb.op = "addTransfer" /\ lastDb.wasStored)
        => (~lastDb.raised /\ ~lastDb.changed)

\* C6 as amended: addTransfer of a stored transaction id raises and leaves
\* the store as it was; addTransfer of a new id does not raise and adds a row.
DuplicateInsertRaises ==
    lastDb.op = "addTransfer"
        => /\ lastDb.wasStored => (lastDb.raised /\ ~lastDb.changed)
           /\ ~lastDb.wasStored => (~lastDb.raised /\ lastDb.changed)

DuplicateInsertRaisesWitness ==
    /\ lastDb.op = "addTransfer"
    /\ lastDb.wasStored
    /\ lastDb.raised
    /\ Len(rows) >= 2

\* the logs the query of the last direct scan returned
ReturnedLogs ==
    { i \in 1..Len(lastScan.logs) :
        lastScan.startBlock <= i /\ i <= lastScan.endBlock }

RecordBlocks ==
    { lastScan.records[k].blockNumber : k \in 1..Len(lastScan.records) }

\* C7: of the well-formed returned logs whose lookups succeed, exactly those
\* whose value is the target amount yield a record, and every record carries
\* the target amount.
ExactAmountFilter ==
    (lastScan.called /\ lastScan.getPastLogs = "ok")
        => /\ \A i \in ReturnedLogs :
                (WellFormed(lastScan.logs[i]) /\ lastScan.lookups[i] = "ok")
                    => (i \in RecordBlocks <=> lastScan.logs[i].data[1] = targetAmount)
           /\ \A k \in 1..Len(lastScan.records) :
                lastScan.records[k].value = targetAmount

\* a scan of a log of the target amount and a log of another amount
ExactAmountFilterWitness ==
    /\ lastScan.called
    /\ lastScan.getPastLogs = "ok"
    /\ Len(lastScan.records) = 1
    /\ \E i \in ReturnedLogs :
          /\ WellFormed(lastScan.logs[i])
          /\ lastScan.lookups[i] = "ok"
          /\ lastScan.logs[i].data[1] # targetAmount

\* a returned log that fails on its own: malformed, or a lookup that fails
\* or is empty
FailsAlone(i) ==
    \/ ~WellFormed(lastScan.logs[i])
    \/ lastScan.lookups[i] # "ok"

\* C8: the scan does not raise, and a returned log that fails on its own
\* removes only itself: the records are, in order and one each, those of
\* the matching logs that do not fail.
PartialFailureResilience ==
    (lastScan.called /\ lastScan.getPastLogs = "ok")
        => /\ ~lastScan.raised
           /\ RecordBlocks =
                { i \in ReturnedLogs :
                    Matching(lastScan.logs[i]) /\ ~FailsAlone(i) }
           /\ \A k \in 1..Len(lastScan.records) : \A l \in 1..Len(lastScan.records) :
                k < l => lastScan.records[k].blockNumber < lastScan.records[l].blockNumber

\* a scan of a matching log whose lookup rejects followed by a matching log
PartialFailureResilienceWitness ==
    /\ lastScan.called
    /\ lastScan.getPastLogs = "ok"
    /\ Len(lastScan.records) = 1
    /\ \E i \in ReturnedLogs : \E j \in ReturnedLogs :
          /\ i < j
          /\ Matching(lastScan.logs[i])
          /\ lastScan.lookups[i] = "fail"
          /\ lastScan.records[1].blockNumber = j

\* the rows of an initiator
RowsOf(b) == { i \in 1..Len(rows) : rows[i].burner_address = b }

Initiators == { b \in Burners : RowsOf(b) # {} }

\* C9: for an initiator with a row, getBurnerStats returns its number of
\* rows, one plus the number of initiators with strictly more rows, and the
\* number of initiators.
RankCorrect ==
    (lastDb.op = "getBurnerStats" /\ lastDb.burnerAddress \in Initiators)
        => /\ lastDb.stats.count = Cardinality(RowsOf(lastDb.burnerAddress))
           /\ lastDb.stats.rank =
                1 + Cardinality({ b \in Initiators :
                                    Cardinality(RowsOf(b))
                                      > Cardinality(RowsOf(lastDb.burnerAddress)) })
           /\ lastDb.stats.totalBurners = Cardinality(Initiators)

\* counts {0xa: 3, 0xb: 2, 0xc: 1}: 0xc has rank 3 of 3
RankCorrectWitness ==
    /\ lastDb.op = "getBurnerStats"
    /\ lastDb.burnerAddress = "0xc"
    /\ Cardinality(RowsOf("0xa")) = 3
    /\ Cardinality(RowsOf("0xb")) = 2
    /\ Cardinality(RowsOf("0xc")) = 1
    /\ lastDb.stats = [count |-> 1, rank |-> 3, totalBurners |-> 3]

\* C10 as stated: the rank is dense, one plus the number of distinct greater
\* counts.
DenseTieRanking ==
    (lastDb.op = "getBurnerStats" /\ lastDb.burnerAddress \in Initiators)
        => lastDb.stats.rank =
             1 + Cardinality({ Cardinality(RowsOf(b)) :
                                 b \in { c \in Initiators :
                                           Cardinality(RowsOf(c))
                                             > Cardinality(RowsOf(lastDb.burnerAddress)) } })

\* the initiators tied with b
TiedWith(b) ==
    { c \in Initiators : Cardinality(RowsOf(c)) = Cardinality(RowsOf(b)) }

\* the initiators with the greatest count below that of b
NextBelow(b) ==
    { c \in Initiators :
        /\ Cardinality(RowsOf(c)) < Cardinality(RowsOf(b))
        /\ \A d \in Initiators :
              Cardinality(RowsOf(d)) < Cardinality(RowsOf(b))
                  => Cardinality(RowsOf(d)) <= Cardinality(RowsOf(c)) }

\* C10 as amended: initiators with equal counts share a rank, and the next
\* lower count gets that rank plus the number of initiators tied at it.
TieRankingShared ==
    (lastDb.op = "getBurnerStats" /\ lastDb.burnerAddress \in Initiators)
        => /\ \A c \in TiedWith(lastDb.burnerAddress) :
                getBurnerStats(rows, c).rank = lastDb.stats.rank
           /\ \A c \in NextBelow(lastDb.burnerAddress) :
                getBurnerStats(rows, c).rank
                    = lastDb.stats.rank + Cardinality(TiedWith(lastDb.burnerAddress))

\* counts {0xa: 2, 0xb: 2, 0xc: 1}: 0xa and 0xb have rank 1, 0xc has rank 3
TieRankingSharedWitness ==
    /\ lastDb.op = "getBurnerStats"
    /\ lastDb.burnerAddress = "0xa"
    /\ Cardinality(RowsOf("0xa")) = 2
    /\ Cardinality(RowsOf("0xb")) = 2
    /\ Cardinality(RowsOf("0xc")) = 1
    /\ lastDb.stats.rank = 1
    /\ getBurnerStats(rows, "0xb").rank = 1
    /\ getBurnerStats(rows, "0xc").rank = 3

\* C11: against one chain state without failing probes, the locator is
\* monotone: t1 <= t2 implies getBlockNumberForDate(t1) <=
\* getBlockNumberForDate(t2).
LocatorMonotone ==
    (lastLocate.called /\ lastLocate.failing = {} /\ lastLocate.t1 <= lastLocate.t2)
        => lastLocate.block1[1] <= lastLocate.block2[1]

\* the search window of the locator for target time t
SearchWindow(t) ==
    Max(0, EstimatedBlock(t, lastLocate.height, lastLocate.chain) - SearchRadius)
      .. Min(lastLocate.height,
             EstimatedBlock(t, lastLocate.height, lastLocate.chain) + SearchRadius)

\* the heights of the search window whose block timestamp is at or after t
AtOrAfter(t) ==
    { h \in SearchWindow(t) : ChainTimestamp(lastLocate.chain, h) >= t }

\* block is the least height of the window at or after t, if there is one
MinimalInWindow(t, block) ==
    /\ block \in Nat
    /\ AtOrAfter(t) # {}
          => /\ block \in AtOrAfter(t)
             /\ \A h \in AtOrAfter(t) : block <= h

\* C20: without failing probes the locator returns a non-negative integer,
\* and the least height of its search window whose block timestamp is at or
\* after the target time whenever the window has such a height.
LocatorMinimalInWindow ==
    (lastLocate.called /\ lastLocate.failing = {})
        => /\ MinimalInWindow(lastLocate.t1, lastLocate.block1[1])
           /\ MinimalInWindow(lastLocate.t2, lastLocate.block2[1])

\* a search that moved away from the estimate to a block inside a window
\* that does not start at the genesis block
LocatorMinimalInWindowWitness ==
    /\ lastLocate.called
    /\ lastLocate.failing = {}
    /\ AtOrAfter(lastLocate.t1) # {}
    /\ lastLocate.block1[1]
          # EstimatedBlock(lastLocate.t1, lastLocate.height, lastLocate.chain)
    /\ \E h \in SearchWindow(lastLocate.t1) : 0 < h /\ h < lastLocate.block1[1]
    /\ 0 \notin SearchWindow(lastLocate.t1)
    /\ ChainTimestamp(lastLocate.chain, lastLocate.block1[1]) = lastLocate.t1

\* the positions of the rows in ascending block-height order, rows of one
\* block in insertion order
AscendingByHeight ==
    CHOOSE order \in [1..Len(rows) -> 1..Len(rows)] :
        /\ \A i \in 1..Len(rows) : \A j \in 1..Len(rows) :
              order[i] = order[j] => i = j
        /\ \A i \in 1..Len(rows) : \A j \in 1..Len(rows) :
              i < j => \/ rows[order[i]].block_number < rows[order[j]].block_number
                       \/ /\ rows[order[i]].block_number = rows[order[j]].block_number
                          /\ order[i] < order[j]

\* the sum of the gaps between the records at positions i - 1 and i of the
\* ascending order, for i from k on
RECURSIVE GapSum(_)
GapSum(k) ==
    IF k > Len(rows) THEN 0
    ELSE (StatTimestamp(rows[AscendingByHeight[k]].block_number)
            - StatTimestamp(rows[AscendingByHeight[k - 1]].block_number))
         + GapSum(k + 1)

\* C12: with fewer than two rows the average gap is null; otherwise it is
\* the sum of the timestamp differences of consecutive records in ascending
\* block-height order divided by their number.
AverageGapIsMean ==
    lastDb.op = "getAverageTimeBetweenTransfers"
        => IF Len(rows) < 2 THEN lastDb.average = <<>>
           ELSE /\ lastDb.average # <<>>
                /\ lastDb.average[1].intervals = Len(rows) - 1
                /\ lastDb.average[1].totalDiff = GapSum(2)

\* records at 72 h, 0 h and 24 h, inserted in that order: the average is
\* 259200000 / 2 = 129600000 ms
AverageGapIsMeanWitness ==
    /\ lastDb.op = "getAverageTimeBetweenTransfers"
    /\ Len(rows) = 3
    /\ rows[1].block_number = 3
    /\ rows[2].block_number = 1
    /\ rows[3].block_number = 2
    /\ lastDb.average = << [totalDiff |-> 2 * 129600000, intervals |-> 2] >>

\* the initiators of the statistics specification with a row
StatInitiators == { b \in StatBurners \ {NULL} : RowsOf(b) # {} }

\* C13: getTopBurners(N) returns min(N, number of initiators) entries of
\* distinct initiators, each with its number of rows, in non-increasing
\* count order, and no initiator left out has more rows than one returned.
TopBurnersCorrect ==
    lastDb.op = "getTopBurners"
        => /\ Len(lastDb.top) = Min(lastDb.limit, Cardinality(StatInitiators))
           /\ \A i \in 1..Len(lastDb.top) :
                /\ lastDb.top[i].address \in StatInitiators
                /\ lastDb.top[i].count = Cardinality(RowsOf(lastDb.top[i].address))
           /\ \A i \in 1..Len(lastDb.top) : \A j \in 1..Len(lastDb.top) :
                /\ i < j => lastDb.top[i].count >= lastDb.top[j].count
                /\ lastDb.top[i].address = lastDb.top[j].address => i = j
           /\ \A b \in StatInitiators :
                (\A i \in 1..Len(lastDb.top) : lastDb.top[i].address # b)
                    => \A i \in 1..Len(lastDb.top) :
                           Cardinality(RowsOf(b)) <= lastDb.top[i].count
           /\ rows = <<>> => lastDb.top = <<>>

\* getTopBurners(1) on counts {0xa: 1, 0xb: 2} and a row without initiator
TopBurnersCorrectWitness ==
    /\ lastDb.op = "getTopBurners"
    /\ lastDb.limit = 1
    /\ Cardinality(RowsOf("0xa")) = 1
    /\ Cardinality(RowsOf("0xb")) = 2
    /\ lastDb.top = << [address |-> "0xb", count |-> 2] >>

\* the sum of the amounts written into the rows from position i on
RECURSIVE AmountsWritten(_)
AmountsWritten(i) ==
    IF i > Len(rows) THEN 0
    ELSE StatAmount(rows[i].burner_address) + AmountsWritten(i + 1)

\* C14: getTotalTokensSent is the exact sum of the amounts written, 0 for
\* the empty store, also where amounts and sum exceed 64 bits; the amount of
\* a row just written reads back as the amount passed to addTransfer.
TotalIsExactSum ==
    /\ lastDb.op = "getTotalTokensSent"
          => /\ lastDb.total = AmountsWritten(1)
             /\ rows = <<>> => lastDb.total = 0
    /\ (lastDb.op = "addTransfer" /\ ~lastDb.raised)
          => lastDb.readBack = lastDb.value

\* two amounts above 64 bits and one below: the sum is above 64 bits
TotalIsExactSumWitness ==
    /\ lastDb.op = "getTotalTokensSent"
    /\ Len(rows) = 3
    /\ Cardinality(RowsOf("0xb")) = 2
    /\ Cardinality(RowsOf("0xa")) = 1
    /\ lastDb.total = 2 * (Int64MaxTokens + 3) + targetAmount
    /\ lastDb.total > Int64MaxTokens

\* C15: a poll that finds the current height at or below the cursor issues
\* no logs query, returns no record and leaves the cursor as it was.
NoScanWhenNotAdvanced ==
    (/\ lastPoll.polled
     /\ ~lastPoll.threw
     /\ lastPoll.cursorBefore # NoBlock
     /\ lastPoll.endBlock <= lastPoll.cursorBefore)
        => /\ ~lastPoll.scanned
           /\ lastPoll.records = <<>>
           /\ lastCheckedBlock = lastPoll.cursorBefore

\* a poll that found the height below the cursor, after two scans
NoScanWhenNotAdvancedWitness ==
    /\ lastPoll.polled
    /\ ~lastPoll.threw
    /\ lastPoll.cursorBefore # NoBlock
    /\ lastPoll.endBlock < lastPoll.cursorBefore
    /\ ~lastPoll.scanned
    /\ Len(windows) = 2

\* the matching logs of the chain in the window of the last poll
MatchingInWindow ==
    { j \in 1..Len(ChainLogs) :
        /\ Matching(ChainLogs[j])
        /\ lastPoll.startBlock <= ChainLogs[j].blockNumber
        /\ ChainLogs[j].blockNumber <= lastPoll.endBlock }

\* C16: the first poll of a monitor that obtains the height H issues one
\* scan, over [max(0, H - 100), H], and leaves the cursor at H; it returns
\* no record when the window has no matching log.
FirstPollWindow ==
    (lastPoll.polled /\ ~lastPoll.threw /\ lastPoll.cursorBefore = NoBlock)
        => /\ lastPoll.scanned
           /\ lastPoll.startBlock = Max(0, lastPoll.endBlock - FirstRunLookback)
           /\ windows = << <<lastPoll.startBlock, lastPoll.endBlock>> >>
           /\ lastCheckedBlock = lastPoll.endBlock
           /\ MatchingInWindow = {} => lastPoll.records = <<>>

\* a first poll at a height above 100 that returned records: the window
\* starts above block 0
FirstPollWindowWitness ==
    /\ lastPoll.polled
    /\ ~lastPoll.threw
    /\ lastPoll.cursorBefore = NoBlock
    /\ lastPoll.endBlock > FirstRunLookback
    /\ lastPoll.startBlock = lastPoll.endBlock - FirstRunLookback
    /\ lastPoll.records # <<>>
    /\ lastCheckedBlock = lastPoll.endBlock

\* C17: at most one scan is in flight; a height query is issued only when
\* no scan and no notifier call is in flight; a scan is in flight exactly
\* while main() awaits it; and the cursor changes only in the step that
\* issues a tick's scan or the step in which that scan settles.
SingleThreadOfControl ==
    /\ [](/\ loop.scans <= 1
          /\ pc = "height" => (loop.scans = 0 /\ loop.pending = <<>>)
          /\ loop.scans = 1 <=> pc = "scan"
          /\ loop.pending # <<>> <=> pc = "notify")
    /\ [][lastCheckedBlock' # lastCheckedBlock
            => (/\ pc \in {"height", "scan"}
                /\ loop.scans + loop'.scans = 1)]_vars

\* the height query of a tick that follows a tick which scanned, stored and
\* notified
SingleThreadOfControlWitness ==
    /\ pc = "height"
    /\ lastCheckedBlock # NoBlock
    /\ Len(loop.calls) >= 2
    /\ Len(alerts) >= 1

\* C18: the loop issues height queries forever, and a tick that ended in
\* an error is followed by another tick.
TicksForever ==
    /\ []<>(pc = "height")
    /\ (loop.threw /\ pc = "sleep") ~> (pc = "height")

\* the height query of the tick after one that ended in an error of the
\* store, rows already written
TicksForeverWitness ==
    /\ pc = "height"
    /\ loop.threw
    /\ loop.records # <<>>
    /\ Len(rows) >= 2

\* the position of the row of a transaction in the table
RowOf(hash) == CHOOSE i \in 1..Len(rows) : rows[i].tx_hash = hash

\* C19: for every notifier call made, the record is a row of the store,
\* and the statistics passed are those of the store as it was right after
\* the record was written, the record included.
PersistBeforeNotify ==
    \A k \in 1..Len(loop.calls) :
        /\ transferExists(rows, loop.calls[k].hash)
        /\ loop.calls[k].stats
             = AggregateStats(SubSeq(rows, 1, RowOf(loop.calls[k].hash)),
                              loop.calls[k])
        /\ loop.calls[k].stats.totalTransactions >= 1
        /\ loop.calls[k].stats.totalTokens >= targetAmount

\* a notifier call in flight for the third row of the store, with a
\* previous record to measure the time from
PersistBeforeNotifyWitness ==
    /\ pc = "notify"
    /\ Len(rows) = 3
    /\ Len(loop.calls) >= 1
    /\ loop.calls[Len(loop.calls)].hash = rows[3].tx_hash
    /\ loop.calls[Len(loop.calls)].stats.totalTransactions = 3
    /\ loop.calls[Len(loop.calls)].stats.timeSinceLast # <<>>
    /\ loop.calls[Len(loop.calls)].stats.averageTimeBetween # <<>>

\* the probes of the two locator calls, each with the estimate of its call
LocatorSteps ==
    { [probe |-> lastLocate.probes1[k],
       estimate |-> EstimatedBlock(lastLocate.t1, lastLocate.height, lastLocate.chain)] :
        k \in 1..Len(lastLocate.probes1) }
    \cup
    { [probe |-> lastLocate.probes2[k],
       estimate |-> EstimatedBlock(lastLocate.t2, lastLocate.height, lastLocate.chain)] :
        k \in 1..Len(lastLocate.probes2) }

\* C21 as stated: every failed probe moves the high bound below the probed
\* height and leaves the low bound, and the search does not raise.
FailedProbeIsTooHigh ==
    lastLocate.called
        => \A s \in LocatorSteps :
              s.probe.step.failed
                  => /\ s.probe.step.high = s.probe.step.mid - 1
                     /\ s.probe.step.low = s.probe.lowBefore

\* C21 as amended: a failed probe below the estimate moves the low bound
\* above the probed height, a failed probe at or above the estimate moves
\* the high bound below it; bestBlock is kept and the search goes on to a
\* result.
FailedProbeBySide ==
    lastLocate.called
        => /\ \A s \in LocatorSteps :
                s.probe.step.failed
                    => IF s.probe.step.mid < s.estimate
                         THEN /\ s.probe.step.low = s.probe.step.mid + 1
                              /\ s.probe.step.high = s.probe.highBefore
                       ELSE /\ s.probe.step.high = s.probe.step.mid - 1
                            /\ s.probe.step.low = s.probe.lowBefore
           /\ lastLocate.probes1 # <<>> => lastLocate.block1 # <<>>
           /\ lastLocate.probes2 # <<>> => lastLocate.block2 # <<>>

\* a search with a failed probe below its estimate and one above it
FailedProbeBySideWitness ==
    /\ lastLocate.called
    /\ lastLocate.block1 # <<>>
    /\ \E k \in 1..Len(lastLocate.probes1) : \E l \in 1..Len(lastLocate.probes1) :
          /\ lastLocate.probes1[k].step.failed
          /\ lastLocate.probes1[l].step.failed
          /\ lastLocate.probes1[k].step.mid
                < EstimatedBlock(lastLocate.t1, lastLocate.height, lastLocate.chain)
          /\ lastLocate.probes1[l].step.mid
                > EstimatedBlock(lastLocate.t1, lastLocate.height, lastLocate.chain)

\* no probe of the sequence answered with a block at or after t
NoneSatisfies(probes, t) ==
    \A k \in 1..Len(probes) :
        \/ probes[k].step.failed
        \/ ChainTimestamp(lastLocate.chain, probes[k].step.mid) < t

\* max(0, currentHeight - floor((currentTimestamp - target) / 12))
InitialEstimate(t) ==
    Max(0, lastLocate.height
             - ((ChainTimestamp(lastLocate.chain, lastLocate.height) - t)
                  \div secondsPerBlock))

\* C22: a locator call whose height and current-block queries succeed
\* returns a block, and returns the initial estimate when no probe answered
\* with a block at or after the target time.
FallbackToEstimate ==
    (lastLocate.called /\ lastLocate.height \notin lastLocate.failing)
        => /\ lastLocate.block1 # <<>>
           /\ lastLocate.block2 # <<>>
           /\ NoneSatisfies(lastLocate.probes1, lastLocate.t1)
                 => lastLocate.block1[1] = InitialEstimate(lastLocate.t1)
           /\ NoneSatisfies(lastLocate.probes2, lastLocate.t2)
                 => lastLocate.block2[1] = InitialEstimate(lastLocate.t2)

\* a call all of whose probes failed, and a call whose window is empty
FallbackToEstimateWitness ==
    /\ lastLocate.called
    /\ lastLocate.probes1 # <<>>
    /\ \A k \in 1..Len(lastLocate.probes1) : lastLocate.probes1[k].step.failed
    /\ lastLocate.block1 = << InitialEstimate(lastLocate.t1) >>
    /\ lastLocate.block1[1] < lastLocate.height
    /\ lastLocate.probes2 = <<>>
    /\ lastLocate.block2 = << InitialEstimate(lastLocate.t2) >>
    /\ lastLocate.block2[1] > lastLocate.height

\* row i comes strictly before row k in the order (block height, timestamp)
StrictlyBefore(i, k) ==
    \/ rows[i].block_number < rows[k].block_number
    \/ /\ rows[i].block_number = rows[k].block_number
       /\ DateParse(rows[i].timestamp) < DateParse(rows[k].timestamp)

\* the records other than row k strictly before it
Preceding(k) == { i \in 1..Len(rows) : i # k /\ StrictlyBefore(i, k) }

\* C23: for a stored record r, getPreviousTransferTimestamp(r.hash,
\* r.timestamp) is null when no other record is strictly before r in the
\* order (block height, timestamp), and otherwise the timestamp of a
\* greatest one of them.
PreviousRecordLookup ==
    lastDb.op = "getPreviousTransferTimestamp"
        => IF Preceding(lastDb.pivot) = {} THEN lastDb.previous = <<>>
           ELSE /\ lastDb.previous # <<>>
                /\ \E i \in Preceding(lastDb.pivot) :
                      /\ lastDb.previous[1] = DateParse(rows[i].timestamp)
                      /\ \A j \in Preceding(lastDb.pivot) : ~StrictlyBefore(i, j)

\* the previous record is one of the same block with an earlier time, while
\* a record of a lower block carries a later time
PreviousRecordLookupWitness ==
    /\ lastDb.op = "getPreviousTransferTimestamp"
    /\ Len(rows) = 3
    /\ lastDb.pivot = 3
    /\ rows[1].block_number = 1
    /\ rows[2].block_number = 2
    /\ rows[3].block_number = 2
    /\ DateParse(rows[1].timestamp) > DateParse(rows[3].timestamp)
    /\ DateParse(rows[2].timestamp) < DateParse(rows[3].timestamp)
    /\ lastDb.previous = << DateParse(rows[2].timestamp) >>

\* the times of the records at or before end-of-day of the day starting at
\* d, in the order (block height, timestamp)
UpToDay(d) ==
    SelectSeq(TransferTimes(OrderByBlockAndTime(rows)),
              LAMBDA t : t <= d + MsPerDay - 1)

\* those of them inside the 7 days that end at end-of-day d
InTrailingWeek(d) ==
    SelectSeq(UpToDay(d), LAMBDA t : t > d + MsPerDay - 1 - WindowDays * MsPerDay)

\* C24: the value of each day d of the series is null if fewer than 2
\* records fall at or before end-of-day d or fewer than 2 of them fall in
\* the trailing 7-day window ending at end-of-day d, and otherwise the mean
\* gap between the records of that window, in hours.
MovingAverageOverSevenDays ==
    lastDb.op = "getDaily7DayMovingAverage"
        => \A k \in 1..Len(lastDb.series) :
              IF \/ Len(UpToDay(lastDb.series[k].date)) < 2
                 \/ Len(InTrailingWeek(lastDb.series[k].date)) < 2
                THEN lastDb.series[k].movingAverageHours = <<>>
              ELSE lastDb.series[k].movingAverageHours
                     = << [totalDiff |-> SumDiffs(InTrailingWeek(lastDb.series[k].date), 2),
                           intervals |-> Len(InTrailingWeek(lastDb.series[k].date)) - 1,
                           msPerHour |-> MsPerHour] >>

\* C25: every record returned by scanBlocksForTransfers is addressed to the
\* configured recipient, whatever logs the gateway returned.
RecordsAddressedToRecipient ==
    lastScan.called
        => \A k \in 1..Len(lastScan.records) :
              lastScan.records[k].to = recipientAddress

\* the statements of migration 1 and the version written after it
MigrationSteps ==
    {"m1_table_info", "m1_create", "m1_insert", "m1_drop", "m1_rename",
     "m1_index", "m1_set_version"}

MigrationSurvivesInterruption ==
    (mig.interrupted /\ mig.legacy # <<>>) =>
        /\ mig.step # "failed"
        /\ (mig.step = "open" =>
               /\ mig.db.token_transfers # <<>>
               /\ mig.db.token_transfers[1].column = "burner_address"
               /\ \A i \in 1..Len(mig.legacy) :
                     \E j \in 1..Len(mig.db.token_transfers[1].rows) :
                        mig.db.token_transfers[1].rows[j] = mig.legacy[i])

\* C27: over the whole run, backfill and every poll tick, no transaction id
\* is alerted twice; and in a tick without a store failure, a rejected
\* notifier call for one record leaves that record stored, and every
\* record of the tick is stored and, when it was not stored before the
\* tick and its own call is not the rejected one, alerted.
AlertedOnce ==
    /\ \A i, j \in 1..Len(alerts) : alerts[i] = alerts[j] => i = j
    /\ (lastPoll.polled /\ lastPoll.scanned /\ ~lastPoll.threw /\ ~lastPoll.tickThrew
          /\ lastPoll.slackFail \cap Hashes(lastPoll.records) # {})
        => \A k \in 1..Len(lastPoll.records) :
              LET hash == lastPoll.records[k].hash
              IN /\ transferExists(rows, hash)
                 /\ (hash \notin lastPoll.storedBefore /\ hash \notin lastPoll.slackFail)
                      => \E a \in 1..Len(alerts) : alerts[a] = hash

AlertedOnceWitness ==
    /\ lastPoll.polled /\ lastPoll.scanned /\ ~lastPoll.tickThrew
    /\ Len(lastPoll.records) >= 2
    /\ lastPoll.records[1].hash \in lastPoll.slackFail
    /\ lastPoll.records[1].hash \notin lastPoll.storedBefore
    /\ \E k \in 2..Len(lastPoll.records) :
          /\ lastPoll.records[k].hash \notin lastPoll.storedBefore
          /\ lastPoll.records[k].hash # lastPoll.records[1].hash
    /\ \E a \in 1..Len(alerts) :
          alerts[a] \in lastPoll.storedBefore \cap Hashes(lastPoll.records)

\* C28: getHistoricalTransfers never invokes scanBlocksForTransfers with a
\* start height above the end height, also for a start date after the
\* latest block and for a chain that grows between the two height queries.
BackfillWindowOrdered ==
    lastScan.called => lastScan.startBlock <= lastScan.endBlock

\* C29: after a restart on a non-empty store, every block above the last
\* height scanned before the restart, up to the height of the latest scan,
\* lies in a window scanned after the restart.
RestartCoverage ==
    (run.restarts > 0 /\ run.scannedBefore # NoBlock
       /\ Len(windows) > run.windowsBefore)
    => \A b \in (run.scannedBefore + 1)..windows[Len(windows)][2] :
          \E k \in (run.windowsBefore + 1)..Len(windows) :
             windows[k][1] <= b /\ b <= windows[k][2]

====
